---- MODULE Spec2Model ----
(***************************************************************************)
(* A model of the blogging platform backend: the relational store (seven   *)
(* tables with their unique, foreign-key and cascade rules), the entity    *)
(* handlers, the blog post handler, the auth handler with its hand-rolled  *)
(* signed token, the ad-config handler and the API router's authorization  *)
(* middleware.                                                             *)
(*                                                                         *)
(* A handler is an operator from a store (a record of tables) and its      *)
(* arguments to an outcome [db, ok, value, error]; an action applies one   *)
(* handler to the current store and leaves the outcome in `response`,      *)
(* which the client then takes (Deliver).  Handlers whose interleaving     *)
(* matters are split at their awaits into one action per store statement.  *)
(***************************************************************************)
EXTENDS Integers, Sequences, FiniteSets, TLC

VARIABLES
    users,                  \* rows of table users
    categories,             \* rows of table categories
    tags,                   \* rows of table tags
    blog_posts,             \* rows of table blog_posts
    blog_post_categories,   \* rows of join table blog_post_categories
    blog_post_tags,         \* rows of join table blog_post_tags
    adsense_config,         \* rows of table adsense_config
    seq,                    \* next value of each table's serial id
    now,                    \* the clock, in seconds (Math.floor(Date.now() / 1000))
    response,               \* the last call and its outcome, until the client takes it
    adsCalls,               \* the updateAdSenseConfig calls in flight, by request slot
    issued,                 \* the tokens login has handed out, with the user and the instant
    postCalls               \* the createBlogPost and updateBlogPost calls in flight, by request slot

tables == <<users, categories, tags, blog_posts, blog_post_categories,
            blog_post_tags, adsense_config>>

vars == <<users, categories, tags, blog_posts, blog_post_categories,
          blog_post_tags, adsense_config, seq, now, response, adsCalls,
          issued, postCalls>>

----------------------------------------------------------------------------
(* Bounds of the model *)

\* serial ids handed out to blog posts
MaxPosts == 1
\* length of a category_ids / tag_ids list in an input
MaxIdsLen == 2
\* last instant of the clock in the post specifications
MaxNow == 1
\* updateAdSenseConfig calls that can be in flight at once
MaxAdsCalls == 2
\* how many createBlogPost and updateBlogPost calls run at the same time
MaxPostCalls == 2

----------------------------------------------------------------------------
(* Values *)

\* SQL NULL / JavaScript null: a nullable value is Null or Some(v)
Null == {}
Some(v) == {v}

\* `field !== undefined` on an input object: an optional field that was not
\* supplied is not in the record's domain
Has(input, f) == f \in DOMAIN input

\* the optional field f: absent, or present with a value of S
Opt(f, S) == {<<>>} \cup {f :> v : v \in S}

Range(s) == {s[i] : i \in DOMAIN s}

\* all lists over S of length lo..hi
Lists(S, lo, hi) == UNION {[1..n -> S] : n \in lo..hi}

\* `x || null` on an optional nullable string: absent, null and "" all give null
OrNull(input, f) ==
    IF Has(input, f) /\ input[f] # Null /\ input[f] # Some("") THEN input[f] ELSE Null

\* the fields of S that the input supplies
Supplied(input, S) == [f \in (DOMAIN input) \cap S |-> input[f]]

Roles == {"super_admin", "author"}
PostStatus == {"draft", "published"}

----------------------------------------------------------------------------
(* The store *)

DB == [users |-> users, categories |-> categories, tags |-> tags,
       blog_posts |-> blog_posts, blog_post_categories |-> blog_post_categories,
       blog_post_tags |-> blog_post_tags, adsense_config |-> adsense_config,
       seq |-> seq]

SetDB(d) ==
    /\ users' = d.users
    /\ categories' = d.categories
    /\ tags' = d.tags
    /\ blog_posts' = d.blog_posts
    /\ blog_post_categories' = d.blog_post_categories
    /\ blog_post_tags' = d.blog_post_tags
    /\ adsense_config' = d.adsense_config
    /\ seq' = d.seq

\* the outcome of one store statement
Done(d, rows) == [ok |-> TRUE, db |-> d, rows |-> rows, error |-> ""]
Failed(d, e) == [ok |-> FALSE, db |-> d, rows |-> {}, error |-> e]

UniqueViolation == "duplicate key value violates unique constraint"
ForeignKeyViolation == "insert or update violates foreign key constraint"

\* the outcome of a handler: the store it leaves, and what it returns or throws
Ok(d, v) == [db |-> d, ok |-> TRUE, value |-> v, error |-> ""]
Err(d, e) == [db |-> d, ok |-> FALSE, value |-> Null, error |-> e]

\* ON DELETE CASCADE from blog_posts to both join tables
CascadePosts(d, postIds) ==
    [d EXCEPT !.blog_posts = {p \in @ : p.id \notin postIds},
              !.blog_post_categories = {r \in @ : r.blog_post_id \notin postIds},
              !.blog_post_tags = {r \in @ : r.blog_post_id \notin postIds}]

\* INSERT INTO blog_posts: serial id, defaultNow() timestamps, unique(slug),
\* author_id references users
InsertBlogPost(d, values, t) ==
    LET row == [id |-> d.seq.blog_posts, created_at |-> t, updated_at |-> t] @@ values
    IN  IF \E p \in d.blog_posts : p.slug = values.slug
        THEN Failed(d, UniqueViolation)
        ELSE IF ~ \E u \in d.users : u.id = values.author_id
        THEN Failed(d, ForeignKeyViolation)
        ELSE Done([d EXCEPT !.blog_posts = @ \cup {row},
                            !.seq.blog_posts = @ + 1], {row})

\* the update of a post row on a table without the unique(slug) constraint
UpdateBlogPostRow_NoUnique(d, postId, updateValues) ==
    LET old == {p \in d.blog_posts : p.id = postId}
        new == {updateValues @@ p : p \in old}
    IN  Done([d EXCEPT !.blog_posts = (@ \ old) \cup new], new)

\* UPDATE blog_posts SET ... WHERE id = postId RETURNING *
UpdateBlogPostRow(d, postId, updateValues) ==
    LET old == {p \in d.blog_posts : p.id = postId}
        new == {updateValues @@ p : p \in old}
    IN  IF \E n \in new : \E p \in d.blog_posts \ old : p.slug = n.slug
        THEN Failed(d, UniqueViolation)
        ELSE Done([d EXCEPT !.blog_posts = (@ \ old) \cup new], new)

\* INSERT INTO blog_post_categories: primary key (blog_post_id, category_id),
\* both columns foreign keys
InsertPostCategories(d, postId, ids) ==
    IF Cardinality(Range(ids)) # Len(ids)
       \/ \E c \in Range(ids) :
            [blog_post_id |-> postId, category_id |-> c] \in d.blog_post_categories
    THEN Failed(d, UniqueViolation)
    ELSE IF (~ \E p \in d.blog_posts : p.id = postId)
            \/ \E c \in Range(ids) : ~ \E k \in d.categories : k.id = c
    THEN Failed(d, ForeignKeyViolation)
    ELSE Done([d EXCEPT !.blog_post_categories =
                 @ \cup {[blog_post_id |-> postId, category_id |-> c] : c \in Range(ids)}], {})

\* INSERT INTO blog_post_tags: primary key (blog_post_id, tag_id), both
\* columns foreign keys
InsertPostTags(d, postId, ids) ==
    IF Cardinality(Range(ids)) # Len(ids)
       \/ \E g \in Range(ids) :
            [blog_post_id |-> postId, tag_id |-> g] \in d.blog_post_tags
    THEN Failed(d, UniqueViolation)
    ELSE IF (~ \E p \in d.blog_posts : p.id = postId)
            \/ \E g \in Range(ids) : ~ \E k \in d.tags : k.id = g
    THEN Failed(d, ForeignKeyViolation)
    ELSE Done([d EXCEPT !.blog_post_tags =
                 @ \cup {[blog_post_id |-> postId, tag_id |-> g] : g \in Range(ids)}], {})

\* SELECT ... WHERE or(...ids.map(id => eq(table.id, id))): or() of no
\* condition is undefined, and a where(undefined) selects every row
SelectByIds(rows, ids) ==
    IF Len(ids) = 0 THEN rows ELSE {r \in rows : r.id \in Range(ids)}

----------------------------------------------------------------------------
(* Blog post handler *)

\* createBlogPost: published_at of a new post
CreatePublishedAt(input, t) ==
    IF input.status = "published" THEN Some(t) ELSE Null

createBlogPost(d, input, authorId, t) ==
    LET author == {u \in d.users : u.id = authorId}
        cats == SelectByIds(d.categories, input.category_ids)
        checkTags == Has(input, "tag_ids") /\ Len(input.tag_ids) > 0
        tgs == IF checkTags THEN SelectByIds(d.tags, input.tag_ids) ELSE {}
    IN  IF author = {} THEN Err(d, "Author not found")
        ELSE IF Cardinality(cats) # Len(input.category_ids)
        THEN Err(d, "One or more categories not found")
        ELSE IF checkTags /\ Cardinality(tgs) # Len(input.tag_ids)
        THEN Err(d, "One or more tags not found")
        ELSE
        LET ins == InsertBlogPost(d,
                     [title |-> input.title, slug |-> input.slug,
                      content |-> input.content, excerpt |-> OrNull(input, "excerpt"),
                      author_id |-> authorId,
                      featured_image_url |-> OrNull(input, "featured_image_url"),
                      status |-> input.status,
                      published_at |-> CreatePublishedAt(input, t)], t)
        IN  IF ~ins.ok THEN Err(ins.db, ins.error)
            ELSE
            LET blogPost == CHOOSE r \in ins.rows : TRUE
                c == IF Len(input.category_ids) > 0
                     THEN InsertPostCategories(ins.db, blogPost.id, input.category_ids)
                     ELSE Done(ins.db, {})
            IN  IF ~c.ok THEN Err(c.db, c.error)
                ELSE
                LET g == IF checkTags
                         THEN InsertPostTags(c.db, blogPost.id, input.tag_ids)
                         ELSE Done(c.db, {})
                IN  IF ~g.ok THEN Err(g.db, g.error) ELSE Ok(g.db, blogPost)

\* the ownership check with || for &&: only an owner who is also super_admin passes
MayModifyPost_OrForAnd(post, currentUserId, currentUserRole) ==
    ~ (currentUserRole # "super_admin" \/ post.author_id # currentUserId)

\* the ownership check of updateBlogPost and deleteBlogPost
MayModifyPost(post, currentUserId, currentUserRole) ==
    ~ (currentUserRole # "super_admin" /\ post.author_id # currentUserId)

\* published_at without the `else if (input.status === 'draft')` branch
UpdatePublishedAt_NeverCleared(post, input, t) ==
    IF Has(input, "status") /\ input.status = "published" /\ post.status = "draft"
    THEN Some(t)
    ELSE post.published_at

\* published_at stamped by every update that publishes, whatever the stored
\* status
UpdatePublishedAt_AlwaysNow(post, input, t) ==
    IF Has(input, "status") /\ input.status = "published"
    THEN Some(t)
    ELSE IF Has(input, "status") /\ input.status = "draft"
    THEN Null
    ELSE post.published_at

\* updateBlogPost: "Determine published_at timestamp"
UpdatePublishedAt(post, input, t) ==
    IF Has(input, "status") /\ input.status = "published" /\ post.status = "draft"
    THEN Some(t)
    ELSE IF Has(input, "status") /\ input.status = "draft"
    THEN Null
    ELSE post.published_at

\* the update values with the status written without published_at
UpdateValues_StatusOnly(post, input, t) ==
    ("updated_at" :> t)
    @@ Supplied(input, {"title", "slug", "content", "excerpt", "featured_image_url",
                        "status"})

\* the update values with `|| null` defaults: a field the input lacks is set
\* to null
UpdateValues_DefaultsNull(post, input, t) ==
    ("updated_at" :> t)
    @@ Supplied(input, {"title", "slug", "content", "excerpt", "featured_image_url"})
    @@ [excerpt |-> Null, featured_image_url |-> Null]
    @@ (IF Has(input, "status")
        THEN [status |-> input.status, published_at |-> UpdatePublishedAt(post, input, t)]
        ELSE <<>>)

\* updateBlogPost: "Build update values"
UpdateValues(post, input, t) ==
    ("updated_at" :> t)
    @@ Supplied(input, {"title", "slug", "content", "excerpt", "featured_image_url"})
    @@ (IF Has(input, "status")
        THEN [status |-> input.status, published_at |-> UpdatePublishedAt(post, input, t)]
        ELSE <<>>)

\* the category update without "Remove existing associations"
ReplacePostCategories_NoRemove(d, postId, ids) ==
    IF Len(ids) > 0 THEN InsertPostCategories(d, postId, ids) ELSE Done(d, {})

\* the category update that adds the new associations before it removes the
\* old ones
ReplacePostCategories_InsertFirst(d, postId, ids) ==
    LET c == IF Len(ids) > 0 THEN InsertPostCategories(d, postId, ids) ELSE Done(d, {})
    IN  IF ~c.ok THEN c
        ELSE Done([c.db EXCEPT !.blog_post_categories =
                     {r \in @ : r.blog_post_id # postId \/ r.category_id \in Range(ids)}],
                  {})

\* updateBlogPost: "Update category associations if provided"
ReplacePostCategories(d, postId, ids) ==
    LET removed == [d EXCEPT !.blog_post_categories = {r \in @ : r.blog_post_id # postId}]
    IN  IF Len(ids) > 0 THEN InsertPostCategories(removed, postId, ids)
        ELSE Done(removed, {})

\* updateBlogPost: "Update tag associations if provided"
ReplacePostTags(d, postId, ids) ==
    LET removed == [d EXCEPT !.blog_post_tags = {r \in @ : r.blog_post_id # postId}]
    IN  IF Len(ids) > 0 THEN InsertPostTags(removed, postId, ids)
        ELSE Done(removed, {})

updateBlogPost(d, input, currentUserId, currentUserRole, t) ==
    LET existingPost == {p \in d.blog_posts : p.id = input.id}
    IN  IF existingPost = {} THEN Err(d, "Blog post not found")
        ELSE
        LET post == CHOOSE p \in existingPost : TRUE
            checkCats == Has(input, "category_ids") /\ Len(input.category_ids) > 0
            checkTags == Has(input, "tag_ids") /\ Len(input.tag_ids) > 0
        IN  IF ~MayModifyPost(post, currentUserId, currentUserRole)
            THEN Err(d, "Permission denied: can only update your own posts")
            ELSE IF checkCats /\ Cardinality(SelectByIds(d.categories, input.category_ids))
                                   # Len(input.category_ids)
            THEN Err(d, "One or more categories not found")
            ELSE IF checkTags /\ Cardinality(SelectByIds(d.tags, input.tag_ids))
                                   # Len(input.tag_ids)
            THEN Err(d, "One or more tags not found")
            ELSE
            LET upd == UpdateBlogPostRow(d, input.id, UpdateValues(post, input, t))
            IN  IF ~upd.ok THEN Err(upd.db, upd.error)
                ELSE
                LET c == IF Has(input, "category_ids")
                         THEN ReplacePostCategories(upd.db, input.id, input.category_ids)
                         ELSE Done(upd.db, {})
                IN  IF ~c.ok THEN Err(c.db, c.error)
                    ELSE
                    LET g == IF Has(input, "tag_ids")
                             THEN ReplacePostTags(c.db, input.id, input.tag_ids)
                             ELSE Done(c.db, {})
                    IN  IF ~g.ok THEN Err(g.db, g.error)
                        ELSE Ok(g.db, CHOOSE r \in upd.rows : TRUE)

deleteBlogPost(d, postId, currentUserId, currentUserRole) ==
    LET existingPost == {p \in d.blog_posts : p.id = postId}
    IN  IF existingPost = {} THEN Err(d, "Blog post not found")
        ELSE
        LET post == CHOOSE p \in existingPost : TRUE
        IN  IF ~MayModifyPost(post, currentUserId, currentUserRole)
            THEN Err(d, "Permission denied: can only delete your own posts")
            ELSE Ok(CascadePosts(d, {postId}), [success |-> TRUE])

----------------------------------------------------------------------------
(* User handler *)

\* Bun.password.hash (users.ts): a salted hash in its own format; the salt is
\* drawn afresh by every call
BunPasswordHash(password, salt) == [alg |-> "argon2id", salt |-> salt, of |-> password]

\* INSERT INTO users: unique(email), unique(username)
InsertUser(d, values, t) ==
    LET row == [id |-> d.seq.users, created_at |-> t, updated_at |-> t] @@ values
    IN  IF \E u \in d.users : u.email = values.email \/ u.username = values.username
        THEN Failed(d, UniqueViolation)
        ELSE Done([d EXCEPT !.users = @ \cup {row}, !.seq.users = @ + 1], {row})

\* UPDATE users SET ... WHERE id = userId RETURNING *
UpdateUserRow(d, userId, updateFields) ==
    LET old == {u \in d.users : u.id = userId}
        new == {updateFields @@ u : u \in old}
    IN  IF \E n \in new : \E u \in d.users \ old :
              u.email = n.email \/ u.username = n.username
        THEN Failed(d, UniqueViolation)
        ELSE Done([d EXCEPT !.users = (@ \ old) \cup new], new)

createUser(d, input, salt, t) ==
    LET ins == InsertUser(d,
                 [email |-> input.email, username |-> input.username,
                  password_hash |-> BunPasswordHash(input.password, salt),
                  first_name |-> input.first_name, last_name |-> input.last_name,
                  role |-> input.role, avatar_url |-> OrNull(input, "avatar_url"),
                  bio |-> OrNull(input, "bio"), is_active |-> TRUE], t)
    IN  IF ~ins.ok THEN Err(ins.db, ins.error)
        ELSE Ok(ins.db, CHOOSE r \in ins.rows : TRUE)

updateUser(d, input, t) ==
    LET updateFields ==
            ("updated_at" :> t)
            @@ Supplied(input, {"email", "username", "first_name", "last_name",
                                "role", "avatar_url", "bio", "is_active"})
        upd == UpdateUserRow(d, input.id, updateFields)
    IN  IF ~upd.ok THEN Err(upd.db, upd.error)
        ELSE IF upd.rows = {} THEN Err(upd.db, "User not found")
        ELSE Ok(upd.db, CHOOSE r \in upd.rows : TRUE)

\* deleteUser on tables whose foreign keys do not cascade and are not checked
deleteUser_NoCascade(d, userId) ==
    LET gone == {u \in d.users : u.id = userId}
    IN  IF gone = {} THEN Err(d, "User not found")
        ELSE Ok([d EXCEPT !.users = @ \ gone], [success |-> TRUE])

\* DELETE FROM users WHERE id = userId RETURNING *, cascading to the user's
\* posts and from them to the join tables
deleteUser(d, userId) ==
    LET gone == {u \in d.users : u.id = userId}
        owned == {p.id : p \in {q \in d.blog_posts : q.author_id = userId}}
    IN  IF gone = {} THEN Err(d, "User not found")
        ELSE Ok(CascadePosts([d EXCEPT !.users = @ \ gone], owned), [success |-> TRUE])

\* Math.ceil(total / limit)
CeilDiv(total, limit) == (total + limit - 1) \div limit

\* the rows of S in some order
Orderings(S) ==
    {o \in [1..Cardinality(S) -> S] : \A i, j \in 1..Cardinality(S) : i # j => o[i] # o[j]}

\* LIMIT limit OFFSET offset on rows that come in the order `order`
Page(order, limit, offset) ==
    [i \in 1..(IF Len(order) - offset < 0 THEN 0
               ELSE IF Len(order) - offset < limit THEN Len(order) - offset
               ELSE limit) |-> order[offset + i]]

\* getUsers with the offset page * limit: the first page is skipped
getUsers_OffsetByPage(d, input, order) ==
    LET offset == input.page * input.limit
        total == Cardinality({u.id : u \in d.users})
    IN  Ok(d, [items |-> Page(order, input.limit, offset), total |-> total,
               page |-> input.page, limit |-> input.limit,
               totalPages |-> CeilDiv(total, input.limit)])

\* getUsers: the select has no ORDER BY, so the store returns the rows in an
\* order of its own (`order`, one of Orderings(d.users))
getUsers(d, input, order) ==
    LET offset == (input.page - 1) * input.limit
        total == Cardinality({u.id : u \in d.users})
    IN  Ok(d, [items |-> Page(order, input.limit, offset), total |-> total,
               page |-> input.page, limit |-> input.limit,
               totalPages |-> CeilDiv(total, input.limit)])

getUserById(d, userId) ==
    LET result == {u \in d.users : u.id = userId}
    IN  Ok(d, IF result # {} THEN Some(CHOOSE u \in result : TRUE) ELSE Null)

----------------------------------------------------------------------------
(* Category and tag handlers *)

\* INSERT INTO categories / tags: unique(slug)
InsertEntity(rows, nextId, values, t) ==
    IF \E r \in rows : r.slug = values.slug THEN {}
    ELSE {[id |-> nextId, created_at |-> t, updated_at |-> t] @@ values}

\* UPDATE categories / tags SET ... WHERE id = id: the new row, unless its
\* slug collides
UpdatedEntity(rows, id, updateData) ==
    LET old == {r \in rows : r.id = id}
        new == {updateData @@ r : r \in old}
    IN  IF \E n \in new : \E r \in rows \ old : r.slug = n.slug
        THEN [ok |-> FALSE, old |-> old, new |-> {}]
        ELSE [ok |-> TRUE, old |-> old, new |-> new]

createCategory(d, input, t) ==
    LET row == InsertEntity(d.categories, d.seq.categories,
                 [name |-> input.name, slug |-> input.slug,
                  description |-> OrNull(input, "description")], t)
    IN  IF row = {} THEN Err(d, UniqueViolation)
        ELSE Ok([d EXCEPT !.categories = @ \cup row, !.seq.categories = @ + 1],
                CHOOSE r \in row : TRUE)

updateCategory(d, input, t) ==
    LET updateData == ("updated_at" :> t)
                      @@ Supplied(input, {"name", "slug", "description"})
        upd == UpdatedEntity(d.categories, input.id, updateData)
    IN  IF ~upd.ok THEN Err(d, UniqueViolation)
        ELSE IF upd.new = {} THEN Err(d, "Category not found")
        ELSE Ok([d EXCEPT !.categories = (@ \ upd.old) \cup upd.new],
                CHOOSE r \in upd.new : TRUE)

\* deleteCategory with the first delete lacking its where clause
deleteCategory_EveryAssociation(d, categoryId) ==
    LET cleared == [d EXCEPT !.blog_post_categories = {}]
        gone == {c \in d.categories : c.id = categoryId}
    IN  IF gone = {} THEN Err(cleared, "Category not found")
        ELSE Ok([cleared EXCEPT !.categories = @ \ gone], [success |-> TRUE])

\* deleteCategory: first the association rows, then the category (the
\* message's `with id ${categoryId}` is left out)
deleteCategory(d, categoryId) ==
    LET cleared == [d EXCEPT !.blog_post_categories =
                               {r \in @ : r.category_id # categoryId}]
        gone == {c \in d.categories : c.id = categoryId}
    IN  IF gone = {} THEN Err(cleared, "Category not found")
        ELSE Ok([cleared EXCEPT !.categories = @ \ gone], [success |-> TRUE])

\* the names the model gives categories and tags, in alphabetical order
Names == <<"Alpha", "Beta", "Gamma">>
NameRank(name) == CHOOSE i \in DOMAIN Names : Names[i] = name

\* ORDER BY name: rows of equal name come in an order of the store's
SortedByName(order) ==
    \A i, j \in DOMAIN order : i < j => NameRank(order[i].name) <= NameRank(order[j].name)

getCategories(d, order) == Ok(d, order)

getCategoryById(d, categoryId) ==
    LET result == {c \in d.categories : c.id = categoryId}
    IN  Ok(d, IF result # {} THEN Some(CHOOSE c \in result : TRUE) ELSE Null)

getCategoryBySlug(d, slug) ==
    LET result == {c \in d.categories : c.slug = slug}
    IN  Ok(d, IF result # {} THEN Some(CHOOSE c \in result : TRUE) ELSE Null)

createTag(d, input, t) ==
    LET row == InsertEntity(d.tags, d.seq.tags,
                 [name |-> input.name, slug |-> input.slug], t)
    IN  IF row = {} THEN Err(d, UniqueViolation)
        ELSE Ok([d EXCEPT !.tags = @ \cup row, !.seq.tags = @ + 1],
                CHOOSE r \in row : TRUE)

updateTag(d, input, t) ==
    LET updateData == ("updated_at" :> t) @@ Supplied(input, {"name", "slug"})
        upd == UpdatedEntity(d.tags, input.id, updateData)
    IN  IF ~upd.ok THEN Err(d, UniqueViolation)
        ELSE IF upd.new = {} THEN Err(d, "Tag not found")
        ELSE Ok([d EXCEPT !.tags = (@ \ upd.old) \cup upd.new],
                CHOOSE r \in upd.new : TRUE)

\* deleteTag: first the association rows, then the tag
deleteTag(d, tagId) ==
    LET cleared == [d EXCEPT !.blog_post_tags = {r \in @ : r.tag_id # tagId}]
        gone == {g \in d.tags : g.id = tagId}
    IN  IF gone = {} THEN Err(cleared, "Tag not found")
        ELSE Ok([cleared EXCEPT !.tags = @ \ gone], [success |-> TRUE])

getTags(d, order) == Ok(d, order)

getTagById(d, tagId) ==
    LET result == {g \in d.tags : g.id = tagId}
    IN  Ok(d, IF result # {} THEN Some(CHOOSE g \in result : TRUE) ELSE Null)

getTagBySlug(d, slug) ==
    LET result == {g \in d.tags : g.slug = slug}
    IN  Ok(d, IF result # {} THEN Some(CHOOSE g \in result : TRUE) ELSE Null)

----------------------------------------------------------------------------
(* Auth handler: password hashing *)

\* hashPassword (auth.ts): the hex digest of SHA-256 over password + 'salt',
\* a fixed function of the password
hashPassword(password) == [alg |-> "sha256-hex", of |-> <<password, "salt">>]

verifyPassword(password, hash) == hashPassword(password) = hash

createUserWithHashedPassword(d, userData, t) ==
    LET ins == InsertUser(d,
                 [email |-> userData.email, username |-> userData.username,
                  password_hash |-> hashPassword(userData.password),
                  first_name |-> userData.first_name, last_name |-> userData.last_name,
                  role |-> IF Has(userData, "role") THEN userData.role ELSE "author",
                  avatar_url |-> OrNull(userData, "avatar_url"),
                  bio |-> OrNull(userData, "bio"),
                  is_active |-> IF Has(userData, "is_active") THEN userData.is_active
                                ELSE TRUE], t)
    IN  IF ~ins.ok THEN Err(ins.db, ins.error)
        ELSE Ok(ins.db, [f \in DOMAIN (CHOOSE r \in ins.rows : TRUE) \ {"password_hash"}
                           |-> (CHOOSE r \in ins.rows : TRUE)[f]])

----------------------------------------------------------------------------
(* The initial store: the empty database after one admin and one author   *)
(* were registered (createUserWithHashedPassword) and two categories and  *)
(* two tags were created (createCategory, createTag), all at instant 0.   *)

EmptyDB == [users |-> {}, categories |-> {}, tags |-> {}, blog_posts |-> {},
            blog_post_categories |-> {}, blog_post_tags |-> {}, adsense_config |-> {},
            seq |-> [users |-> 1, categories |-> 1, tags |-> 1, blog_posts |-> 1,
                     adsense_config |-> 1]]

AdminData == [email |-> "admin@example.com", username |-> "admin",
              password |-> "admin-password", first_name |-> "Ada", last_name |-> "Admin",
              role |-> "super_admin"]
AuthorData == [email |-> "author@example.com", username |-> "author",
               password |-> "author-password", first_name |-> "Arthur",
               last_name |-> "Author"]

SeedDB ==
    LET d1 == createUserWithHashedPassword(EmptyDB, AdminData, 0).db
        d2 == createUserWithHashedPassword(d1, AuthorData, 0).db
        d3 == createCategory(d2, [name |-> "Alpha", slug |-> "alpha"], 0).db
        d4 == createCategory(d3, [name |-> "Beta", slug |-> "beta"], 0).db
        d5 == createTag(d4, [name |-> "Alpha", slug |-> "alpha"], 0).db
    IN  createTag(d5, [name |-> "Beta", slug |-> "beta"], 0).db

None == [op |-> "none"]

\* a request slot with no call in it
Idle == [pc |-> "idle"]

Init ==
    /\ users = SeedDB.users
    /\ categories = SeedDB.categories
    /\ tags = SeedDB.tags
    /\ blog_posts = SeedDB.blog_posts
    /\ blog_post_categories = SeedDB.blog_post_categories
    /\ blog_post_tags = SeedDB.blog_post_tags
    /\ adsense_config = SeedDB.adsense_config
    /\ seq = SeedDB.seq
    /\ now = 0
    /\ response = None
    /\ adsCalls = [c \in 1..MaxAdsCalls |-> Idle]
    /\ issued = {}
    /\ postCalls = [c \in 1..MaxPostCalls |-> Idle]

\* the call and what it returned or threw
Reply(op, args, r) ==
    [op |-> op, args |-> args, ok |-> r.ok, value |-> r.value, error |-> r.error]

\* the client takes the response
Deliver ==
    /\ response # None
    /\ response' = None
    /\ UNCHANGED <<tables, seq, now, adsCalls, issued, postCalls>>

\* a second passes
Tick ==
    /\ response = None
    /\ now < MaxNow
    /\ now' = now + 1
    /\ UNCHANGED <<tables, seq, response, adsCalls, issued, postCalls>>

----------------------------------------------------------------------------
(* Calls of the blog post handler *)

\* the ids the model's inputs name: those of the seeded rows, and the post
\* ids the serial can hand out
UserIds == {1, 2}
CategoryIds == {1, 2}
TagIds == {1, 2}
PostIds == 1..MaxPosts
Slugs == {"first-post", "second-post"}

\* a caller as the router passes it on: ctx.user.id, ctx.user.role
Callers == [id : UserIds, role : Roles]

\* number of optional fields an update input supplies
MaxSupplied == 1

CreateBlogPostInputs ==
    {[title |-> "Title", slug |-> s, content |-> "Content", status |-> st,
      category_ids |-> cs] @@ tg :
        s \in Slugs, st \in PostStatus, cs \in Lists(CategoryIds, 1, MaxIdsLen),
        tg \in Opt("tag_ids", Lists(TagIds, 0, MaxIdsLen - 1))}

UpdateBlogPostInputs ==
    {i \in {[id |-> p] @@ st @@ cs @@ tg :
              p \in PostIds, st \in Opt("status", PostStatus),
              cs \in Opt("category_ids", Lists(CategoryIds, 0, MaxIdsLen)),
              tg \in Opt("tag_ids", Lists(TagIds, 0, MaxIdsLen - 1))} :
        Cardinality(DOMAIN i) <= 1 + MaxSupplied}

CreateBlogPost ==
    \E input \in CreateBlogPostInputs, authorId \in UserIds :
        /\ response = None
        /\ seq.blog_posts <= MaxPosts
        /\ LET r == createBlogPost(DB, input, authorId, now)
           IN  /\ SetDB(r.db)
               /\ response' = Reply("createBlogPost",
                                    [input |-> input, authorId |-> authorId], r)
        /\ UNCHANGED <<now, adsCalls, issued, postCalls>>

UpdateBlogPost ==
    \E input \in UpdateBlogPostInputs, c \in Callers :
        /\ response = None
        /\ LET r == updateBlogPost(DB, input, c.id, c.role, now)
           IN  /\ SetDB(r.db)
               /\ response' = Reply("updateBlogPost",
                                    [input |-> input, currentUserId |-> c.id,
                                     currentUserRole |-> c.role], r)
        /\ UNCHANGED <<now, adsCalls, issued, postCalls>>

DeleteBlogPost ==
    \E postId \in PostIds, c \in Callers :
        /\ response = None
        /\ LET r == deleteBlogPost(DB, postId, c.id, c.role)
           IN  /\ SetDB(r.db)
               /\ response' = Reply("deleteBlogPost",
                                    [postId |-> postId, currentUserId |-> c.id,
                                     currentUserRole |-> c.role], r)
        /\ UNCHANGED <<now, adsCalls, issued, postCalls>>

DeleteCategory ==
    \E categoryId \in CategoryIds :
        /\ response = None
        /\ LET r == deleteCategory(DB, categoryId)
           IN  /\ SetDB(r.db)
               /\ response' = Reply("deleteCategory", [categoryId |-> categoryId], r)
        /\ UNCHANGED <<now, adsCalls, issued, postCalls>>

DeleteTag ==
    \E tagId \in TagIds :
        /\ response = None
        /\ LET r == deleteTag(DB, tagId)
           IN  /\ SetDB(r.db)
               /\ response' = Reply("deleteTag", [tagId |-> tagId], r)
        /\ UNCHANGED <<now, adsCalls, issued, postCalls>>

Next ==
    \/ CreateBlogPost
    \/ UpdateBlogPost
    \/ DeleteBlogPost
    \/ DeleteCategory
    \/ DeleteTag
    \/ Tick
    \/ Deliver

Spec == Init /\ [][Next]_vars

----------------------------------------------------------------------------
(* Properties of the blog post handler *)

PermissionDenied == {"Permission denied: can only update your own posts",
                     "Permission denied: can only delete your own posts"}

\* the association rows a post has with the categories / tags of `ids`
CategoryRows(postId, ids) == {[blog_post_id |-> postId, category_id |-> c] : c \in ids}
TagRows(postId, ids) == {[blog_post_id |-> postId, tag_id |-> g] : g \in ids}

\* a list of ids that all exist in `rows`, none of them twice
AllExistOnce(ids, rows) ==
    /\ Cardinality(Range(ids)) = Len(ids)
    /\ \A i \in Range(ids) : \E r \in rows : r.id = i

\* an update input that names only existing categories and tags and takes no
\* other post's slug
ValidUpdateInput(input) ==
    /\ Has(input, "category_ids") => AllExistOnce(input.category_ids, categories)
    /\ Has(input, "tag_ids") => AllExistOnce(input.tag_ids, tags)
    /\ Has(input, "slug") =>
         ~ \E p \in blog_posts : p.id # input.id /\ p.slug = input.slug

\* the step that answers a call of `ops`
Answers(ops) == response = None /\ response' # None /\ response'.op \in ops

C1_Step ==
    Answers({"updateBlogPost", "deleteBlogPost"}) =>
        LET a == response'.args
            postId == IF response'.op = "updateBlogPost" THEN a.input.id ELSE a.postId
            valid == response'.op = "updateBlogPost" => ValidUpdateInput(a.input)
        IN  \A p \in {q \in blog_posts : q.id = postId} :
              IF a.currentUserRole # "super_admin" /\ a.currentUserId # p.author_id
              THEN /\ ~response'.ok
                   /\ response'.error \in PermissionDenied
                   /\ p \in blog_posts'
                   /\ {r \in blog_post_categories' : r.blog_post_id = postId}
                        = {r \in blog_post_categories : r.blog_post_id = postId}
                   /\ {r \in blog_post_tags' : r.blog_post_id = postId}
                        = {r \in blog_post_tags : r.blog_post_id = postId}
              ELSE valid => response'.ok

\* C1: updateBlogPost and deleteBlogPost on an existing post fail with
\* PermissionDenied, leaving the post row and its association rows as they
\* were, when the caller is neither super_admin nor the post's author; with
\* otherwise valid input they succeed for a super_admin and for the author.
C1_Ownership == [][C1_Step]_vars

\* a non-owner author was refused the update of an existing post
C1_Witness ==
    /\ response.op = "updateBlogPost"
    /\ response.error \in PermissionDenied
    /\ response.args.currentUserRole = "author"
    /\ \E p \in blog_posts : /\ p.id = response.args.input.id
                             /\ p.author_id # response.args.currentUserId

\* the stored row of the post a call returned
Stored(post) == {p \in blog_posts' : p.id = post.id}

C2_Step ==
    /\ (Answers({"createBlogPost"}) /\ response'.ok) =>
         \A p \in Stored(response'.value) :
            /\ response'.args.input.status = "published" => p.published_at = Some(now)
            /\ response'.args.input.status = "draft" => p.published_at = Null
    /\ (Answers({"updateBlogPost"}) /\ response'.ok) =>
         LET input == response'.args.input
         IN  \A old \in {q \in blog_posts : q.id = input.id} :
               \A p \in Stored(response'.value) :
                 /\ (Has(input, "status") /\ input.status = "published"
                       /\ old.status = "draft") => p.published_at = Some(now)
                 /\ (Has(input, "status") /\ input.status = "draft"
                       /\ old.status = "published") => p.published_at = Null
                 /\ ~Has(input, "status") => p.published_at = old.published_at

\* C2: createBlogPost stores a non-null published_at (the current time) for
\* status published and null for draft; updateBlogPost sets it on draft ->
\* published, clears it on published -> draft, and leaves it as it was when
\* the input carries no status.
C2_PublishedAt == [][C2_Step]_vars

\* a post created as a draft at an earlier instant was published by an update
C2_Witness ==
    /\ response.op = "updateBlogPost"
    /\ response.ok
    /\ Has(response.args.input, "status")
    /\ response.args.input.status = "published"
    /\ response.value.published_at = Some(now)
    /\ response.value.created_at < now

\* C3: after a successful updateBlogPost that supplies category_ids = S (the
\* empty list included) the post's category rows are exactly S, and
\* likewise its tag rows are exactly a supplied tag_ids.
C3_ReplaceAssociations ==
    (response.op = "updateBlogPost" /\ response.ok) =>
        LET input == response.args.input
        IN  /\ Has(input, "category_ids") =>
                 {r \in blog_post_categories : r.blog_post_id = input.id}
                   = CategoryRows(input.id, Range(input.category_ids))
            /\ Has(input, "tag_ids") =>
                 {r \in blog_post_tags : r.blog_post_id = input.id}
                   = TagRows(input.id, Range(input.tag_ids))

\* an update replaced a post's categories by the empty list
C3_Witness ==
    /\ response.op = "updateBlogPost"
    /\ response.ok
    /\ Has(response.args.input, "category_ids")
    /\ response.args.input.category_ids = <<>>
    /\ categories # {}

----------------------------------------------------------------------------
(* Ad-config handler *)

SlotFields == {"ad_slot_header", "ad_slot_sidebar", "ad_slot_footer", "ad_slot_in_content"}

\* `x ?? null` on an optional nullable field: absent and null give null
Nullish(input, f) == IF Has(input, f) THEN input[f] ELSE Null

\* select().from(adSenseConfigTable).limit(1): no row, or one row of the
\* store's choosing (the select has no ORDER BY)
LimitOne(rows) == IF rows = {} THEN {Null} ELSE {Some(r) : r \in rows}

\* getAdSenseConfig, where `first` is what the select returned
getAdSenseConfig(d, first) == Ok(d, first)

\* the columns updateAdSenseConfig writes from its input
ConfigValues(input) ==
    [publisher_id |-> input.publisher_id,
     ad_slot_header |-> Nullish(input, "ad_slot_header"),
     ad_slot_sidebar |-> Nullish(input, "ad_slot_sidebar"),
     ad_slot_footer |-> Nullish(input, "ad_slot_footer"),
     ad_slot_in_content |-> Nullish(input, "ad_slot_in_content"),
     is_enabled |-> input.is_enabled]

\* the write that sets only the fields the input supplies: an omitted slot
\* keeps the value of the row
WriteAdSenseConfig_SuppliedOnly(d, input, existingConfig, t) ==
    IF existingConfig # Null
    THEN [d EXCEPT !.adsense_config =
            {(input @@ ("updated_at" :> t)) @@ r : r \in @}]
    ELSE [d EXCEPT !.adsense_config =
            @ \cup {[id |-> d.seq.adsense_config, created_at |-> t, updated_at |-> t]
                    @@ ConfigValues(input)},
                   !.seq.adsense_config = @ + 1]

\* updateAdSenseConfig after its existence check returned existingConfig:
\* an update (without a where clause: of every row) or an insert.
\* `returned` is the row of the statement's result the handler returns.
WriteAdSenseConfig(d, input, existingConfig, t) ==
    IF existingConfig # Null
    THEN [d EXCEPT !.adsense_config =
            {(ConfigValues(input) @@ ("updated_at" :> t)) @@ r : r \in @}]
    ELSE [d EXCEPT !.adsense_config =
            @ \cup {[id |-> d.seq.adsense_config, created_at |-> t, updated_at |-> t]
                    @@ ConfigValues(input)},
                   !.seq.adsense_config = @ + 1]

\* the rows the write statement returns (returning()): every updated row, or
\* the inserted one
WrittenRows(d, after, existingConfig) ==
    IF existingConfig # Null THEN after.adsense_config
    ELSE {r \in after.adsense_config : r.id = d.seq.adsense_config}

\* the public view with the publisher id left in
PublicFields_WithPublisher(config) ==
    [publisher_id |-> config.publisher_id,
     ad_slot_header |-> config.ad_slot_header,
     ad_slot_sidebar |-> config.ad_slot_sidebar,
     ad_slot_footer |-> config.ad_slot_footer,
     ad_slot_in_content |-> config.ad_slot_in_content,
     is_enabled |-> config.is_enabled]

\* the public view of a config row
PublicFields(config) ==
    [ad_slot_header |-> config.ad_slot_header,
     ad_slot_sidebar |-> config.ad_slot_sidebar,
     ad_slot_footer |-> config.ad_slot_footer,
     ad_slot_in_content |-> config.ad_slot_in_content,
     is_enabled |-> config.is_enabled]

\* getPublicAdSenseConfig, where `first` is what getAdSenseConfig returned
getPublicAdSenseConfig(d, first) ==
    IF first = Null THEN Ok(d, Null)
    ELSE Ok(d, Some(PublicFields(CHOOSE c \in first : TRUE)))

PublisherIds == {"ca-pub-1", "ca-pub-2"}
SlotValues == {Null, Some("slot-1")}

UpdateAdSenseConfigInputs ==
    {i \in {[publisher_id |-> p, is_enabled |-> e] @@ h @@ sb @@ f @@ c :
              p \in PublisherIds, e \in BOOLEAN,
              h \in Opt("ad_slot_header", SlotValues),
              sb \in Opt("ad_slot_sidebar", SlotValues),
              f \in Opt("ad_slot_footer", SlotValues),
              c \in Opt("ad_slot_in_content", SlotValues)} :
        Cardinality(DOMAIN i) <= 2 + MaxSupplied}

\* the inputs of the calls that run concurrently: those that supply no slot
RacingInputs == {i \in UpdateAdSenseConfigInputs : DOMAIN i \cap SlotFields = {}}

\* updateAdSenseConfig up to its first await: "Check if config already exists"
AdsCheck(c) ==
    \E input \in RacingInputs, first \in LimitOne(adsense_config) :
        /\ adsCalls[c] = Idle
        /\ adsCalls' = [adsCalls EXCEPT ![c] =
                          [pc |-> "checked", input |-> input, existingConfig |-> first]]
        /\ UNCHANGED <<tables, seq, now, response, issued, postCalls>>

\* updateAdSenseConfig from the check on: the update or the insert
AdsWrite(c) ==
    /\ adsCalls[c] # Idle
    /\ response = None
    /\ LET call == adsCalls[c]
           after == WriteAdSenseConfig(DB, call.input, call.existingConfig, now)
       IN  /\ SetDB(after)
           /\ \E returned \in WrittenRows(DB, after, call.existingConfig) :
                response' = Reply("updateAdSenseConfig", [input |-> call.input],
                                  Ok(after, returned))
    /\ adsCalls' = [adsCalls EXCEPT ![c] = Idle]
    /\ UNCHANGED <<now, issued, postCalls>>

GetAdSenseConfig ==
    \E first \in LimitOne(adsense_config) :
        /\ response = None
        /\ response' = Reply("getAdSenseConfig", <<>>, getAdSenseConfig(DB, first))
        /\ UNCHANGED <<tables, seq, now, adsCalls, issued, postCalls>>

GetPublicAdSenseConfig ==
    \E first \in LimitOne(adsense_config) :
        /\ response = None
        /\ response' = Reply("getPublicAdSenseConfig", <<>>,
                             getPublicAdSenseConfig(DB, first))
        /\ UNCHANGED <<tables, seq, now, adsCalls, issued, postCalls>>

NextAds ==
    \/ \E c \in 1..MaxAdsCalls : AdsCheck(c)
    \/ \E c \in 1..MaxAdsCalls : AdsWrite(c)
    \/ GetAdSenseConfig
    \/ GetPublicAdSenseConfig
    \/ Tick
    \/ Deliver

SpecAds == Init /\ [][NextAds]_vars

\* updateAdSenseConfig run to completion with no other call in between
UpdateAdSenseConfig ==
    \E input \in UpdateAdSenseConfigInputs, first \in LimitOne(adsense_config) :
        /\ response = None
        /\ LET after == WriteAdSenseConfig(DB, input, first, now)
           IN  /\ SetDB(after)
               /\ \E returned \in WrittenRows(DB, after, first) :
                    response' = Reply("updateAdSenseConfig", [input |-> input],
                                      Ok(after, returned))
        /\ UNCHANGED <<now, adsCalls, issued, postCalls>>

NextAdsSeq ==
    \/ UpdateAdSenseConfig
    \/ GetAdSenseConfig
    \/ GetPublicAdSenseConfig
    \/ Tick
    \/ Deliver

SpecAdsSeq == Init /\ [][NextAdsSeq]_vars

----------------------------------------------------------------------------
(* The auth handler: tokens, login, verifyToken, getCurrentUser *)

JWT_SECRET == "your-secret-key"
JWT_EXPIRES_IN_HOURS == 24

\* btoa(JSON.stringify(x)) without the padding: the text that decodes to x
Encode(x) == [b64 |-> x]

\* a payload part that is no longer the encoding of a JSON text
Garbled == [garbled |-> TRUE]

\* JSON.parse(atob(part)) returns a value or throws
Parses(part) == "b64" \in DOMAIN part
Decode(part) == part.b64

\* btoa(`${encodedHeader}.${encodedPayload}.${secret}`) without the padding
Sign(encodedHeader, encodedPayload, secret) ==
    [b64 |-> <<encodedHeader, encodedPayload, secret>>]

\* the token is the sequence of its dot-separated parts (token.split('.'))
createToken(payload, t) ==
    LET header == [alg |-> "HS256", typ |-> "JWT"]
        claims == [userId |-> payload.userId, email |-> payload.email,
                   role |-> payload.role, iat |-> t,
                   exp |-> t + (JWT_EXPIRES_IN_HOURS * 60 * 60)]
        encodedHeader == Encode(header)
        encodedPayload == Encode(claims)
    IN  <<encodedHeader, encodedPayload, Sign(encodedHeader, encodedPayload, JWT_SECRET)>>

\* verifyTokenSignature with the signature comparison left out
verifyTokenSignature_NoSignature(token, t) ==
    IF Len(token) # 3 THEN Null
    ELSE IF ~Parses(token[2]) THEN Null
    ELSE LET payload == Decode(token[2])
         IN  IF Has(payload, "exp") /\ payload.exp # 0 /\ payload.exp < t THEN Null
             ELSE Some([userId |-> payload.userId, email |-> payload.email,
                        role |-> payload.role])

\* the decoded claims, or null; every throw inside is caught and gives null
verifyTokenSignature(token, t) ==
    IF Len(token) # 3 THEN Null
    ELSE IF token[3] # Sign(token[1], token[2], JWT_SECRET) THEN Null
    ELSE IF ~Parses(token[2]) THEN Null
    ELSE LET payload == Decode(token[2])
         IN  IF Has(payload, "exp") /\ payload.exp # 0 /\ payload.exp < t THEN Null
             ELSE Some([userId |-> payload.userId, email |-> payload.email,
                        role |-> payload.role])

\* const { password_hash, ...userWithoutPassword } = user
WithoutPassword(user) == [f \in DOMAIN user \ {"password_hash"} |-> user[f]]

\* login with the password compared before the is_active test
login_PasswordFirst(d, input, t) ==
    LET found == {u \in d.users : u.email = input.email}
    IN  IF found = {} THEN Err(d, "Invalid email or password")
        ELSE LET user == CHOOSE u \in found : TRUE
             IN  IF ~verifyPassword(input.password, user.password_hash)
                 THEN Err(d, "Invalid email or password")
                 ELSE IF ~user.is_active THEN Err(d, "Account is deactivated")
                 ELSE Ok(d, [user |-> WithoutPassword(user),
                             token |-> createToken([userId |-> user.id,
                                                    email |-> user.email,
                                                    role |-> user.role], t)])

login(d, input, t) ==
    LET found == {u \in d.users : u.email = input.email}
    IN  IF found = {} THEN Err(d, "Invalid email or password")
        ELSE LET user == CHOOSE u \in found : TRUE
             IN  IF ~user.is_active THEN Err(d, "Account is deactivated")
                 ELSE IF ~verifyPassword(input.password, user.password_hash)
                 THEN Err(d, "Invalid email or password")
                 ELSE Ok(d, [user |-> WithoutPassword(user),
                             token |-> createToken([userId |-> user.id,
                                                    email |-> user.email,
                                                    role |-> user.role], t)])

\* verifyToken without the is_active test
verifyToken_IgnoresActive(d, token, t) ==
    LET decoded == verifyTokenSignature(token, t)
    IN  IF decoded = Null THEN Ok(d, Null)
        ELSE LET claims == CHOOSE c \in decoded : TRUE
                 found == {u \in d.users : u.id = claims.userId}
             IN  IF found = {} THEN Ok(d, Null)
                 ELSE Ok(d, {WithoutPassword(u) : u \in found})

\* verifyToken returning the role and email of the token's claims
verifyToken_FromClaims(d, token, t) ==
    LET decoded == verifyTokenSignature(token, t)
    IN  IF decoded = Null THEN Ok(d, Null)
        ELSE LET claims == CHOOSE c \in decoded : TRUE
                 found == {u \in d.users : u.id = claims.userId}
             IN  IF found = {} \/ \E u \in found : ~u.is_active THEN Ok(d, Null)
                 ELSE Ok(d, {[WithoutPassword(u) EXCEPT !.role = claims.role,
                                                        !.email = claims.email] :
                             u \in found})

\* verifyToken never throws: its catch returns null
verifyToken(d, token, t) ==
    LET decoded == verifyTokenSignature(token, t)
    IN  IF decoded = Null THEN Ok(d, Null)
        ELSE LET claims == CHOOSE c \in decoded : TRUE
                 found == {u \in d.users : u.id = claims.userId}
             IN  IF found = {} \/ \E u \in found : ~u.is_active THEN Ok(d, Null)
                 ELSE Ok(d, {WithoutPassword(u) : u \in found})

\* getCurrentUser with the is_active test of verifyToken
getCurrentUser_ActiveOnly(d, userId) ==
    Ok(d, {WithoutPassword(u) : u \in {v \in d.users : v.id = userId /\ v.is_active}})

getCurrentUser(d, userId) ==
    Ok(d, {WithoutPassword(u) : u \in {v \in d.users : v.id = userId}})

----------------------------------------------------------------------------
(* Calls of the auth handler *)

\* how many tokens the clients hold
MaxTokens == 2

\* the instants the clock shows: the first seconds, and the seconds around
\* the expiry of a token issued in them
Instants ==
    (0..MaxNow) \cup {(JWT_EXPIRES_IN_HOURS * 60 * 60) + k : k \in 0..(MaxNow + 1)}

LoginInputs ==
    [email : {AdminData.email, AuthorData.email, "nobody@example.com"},
     password : {AdminData.password, AuthorData.password, "wrong-password"}]

\* the claims that differ from `claims` in one place
OtherClaims(claims) ==
    {[claims EXCEPT !.userId = id] : id \in UserIds \ {claims.userId}}
    \cup {[claims EXCEPT !.role = r] : r \in Roles \ {claims.role}}
    \cup {[claims EXCEPT !.exp = @ + 1]}

\* the tokens one character away from `token`: a changed header, payload or
\* signature, a dot that became another character (two parts), a character
\* that became a dot (four parts)
Tampered(token) ==
    {<<Encode([alg |-> "none", typ |-> "JWT"]), token[2], token[3]>>}
    \cup {<<token[1], Encode(c), token[3]>> : c \in OtherClaims(Decode(token[2]))}
    \cup {<<token[1], Garbled, token[3]>>}
    \cup {<<token[1], token[2], Sign(token[1], token[2], "your-secret-kez")>>}
    \cup {<<token[1], Garbled>>}
    \cup {<<token[1], Garbled, Garbled, token[3]>>}

\* what a client can send as a token: one it was issued, or one made from it
TokenInputs ==
    {i.token : i \in issued} \cup UNION {Tampered(i.token) : i \in issued}

Login ==
    \E input \in LoginInputs :
        /\ response = None
        /\ LET r == login(DB, input, now)
               grant == IF r.ok
                        THEN {[token |-> r.value.token, userId |-> r.value.user.id,
                               at |-> now]}
                        ELSE {}
           IN  /\ Cardinality(issued \cup grant) <= MaxTokens
               /\ SetDB(r.db)
               /\ response' = Reply("login", [input |-> input], r)
               /\ issued' = issued \cup grant
        /\ UNCHANGED <<now, adsCalls, postCalls>>

VerifyToken ==
    \E token \in TokenInputs :
        /\ response = None
        /\ LET r == verifyToken(DB, token, now)
           IN  /\ SetDB(r.db)
               /\ response' = Reply("verifyToken", [token |-> token], r)
        /\ UNCHANGED <<now, adsCalls, issued, postCalls>>

GetCurrentUser ==
    \E userId \in UserIds :
        /\ response = None
        /\ LET r == getCurrentUser(DB, userId)
           IN  /\ SetDB(r.db)
               /\ response' = Reply("getCurrentUser", [userId |-> userId], r)
        /\ UNCHANGED <<now, adsCalls, issued, postCalls>>

\* updateUser switching an account off or on
SetUserActive ==
    \E id \in UserIds, active \in BOOLEAN :
        /\ response = None
        /\ LET input == [id |-> id, is_active |-> active]
               r == updateUser(DB, input, now)
           IN  /\ SetDB(r.db)
               /\ response' = Reply("updateUser", [input |-> input], r)
        /\ UNCHANGED <<now, adsCalls, issued, postCalls>>

DeleteUser ==
    \E id \in UserIds :
        /\ response = None
        /\ LET r == deleteUser(DB, id)
           IN  /\ SetDB(r.db)
               /\ response' = Reply("deleteUser", [id |-> id], r)
        /\ UNCHANGED <<now, adsCalls, issued, postCalls>>

\* time passes, up to and beyond the expiry of the tokens
TickAuth ==
    /\ response = None
    /\ \E t \in Instants : t > now /\ now' = t
    /\ UNCHANGED <<tables, seq, response, adsCalls, issued, postCalls>>

NextAuth ==
    \/ Login
    \/ VerifyToken
    \/ GetCurrentUser
    \/ SetUserActive
    \/ DeleteUser
    \/ TickAuth
    \/ Deliver

SpecAuth == Init /\ [][NextAuth]_vars

\* the updates of role and email an administrator makes to the author's account
ProfileInputs ==
    {[id |-> 2, role |-> r] : r \in Roles}
    \cup {[id |-> 2, email |-> e] : e \in {AuthorData.email, "moved@example.com"}}

\* updateUser changing a role or an email while tokens are in use
ChangeProfile ==
    \E input \in ProfileInputs :
        /\ response = None
        /\ LET r == updateUser(DB, input, now)
           IN  /\ SetDB(r.db)
               /\ response' = Reply("updateUser", [input |-> input], r)
        /\ UNCHANGED <<now, adsCalls, issued, postCalls>>

NextProfile == NextAuth \/ ChangeProfile

SpecProfile == Init /\ [][NextProfile]_vars

----------------------------------------------------------------------------
(* Properties of the ad-config handler *)

\* C4: the ad-config table holds at most one row in every reachable state,
\* whatever the interleaving of updateAdSenseConfig calls whose existence
\* check and write are separate store steps.
C4_SingletonConfig == Cardinality(adsense_config) <= 1

PrivateFields == {"id", "publisher_id", "created_at", "updated_at"}

\* the values the private fields of a config row can take
PrivateValues == [id : 1..(MaxAdsCalls + 1), publisher_id : PublisherIds,
                  created_at : 0..MaxNow, updated_at : 0..MaxNow]

\* what getPublicAdSenseConfig can return on a store with these config rows
PublicResults(rows) ==
    {getPublicAdSenseConfig([DB EXCEPT !.adsense_config = rows], first).value :
        first \in LimitOne(rows)}

\* C8: getPublicAdSenseConfig returns null when there is no config row and
\* otherwise a record of exactly the four slot ids and is_enabled; two
\* stores whose config rows differ only in id, publisher_id, created_at or
\* updated_at give the same result, while getAdSenseConfig returns those
\* fields.
C8_PublicConfig ==
    /\ PublicResults({}) = {Null}
    /\ \A v \in PublicResults(adsense_config) :
         /\ adsense_config # {} => v # Null
         /\ \A c \in v : DOMAIN c = SlotFields \cup {"is_enabled"}
    /\ \A g \in [adsense_config -> PrivateValues] :
         PublicResults({g[r] @@ r : r \in adsense_config}) = PublicResults(adsense_config)
    /\ \A first \in LimitOne(adsense_config) :
         \A c \in getAdSenseConfig(DB, first).value : PrivateFields \subseteq DOMAIN c
    /\ response.op = "getPublicAdSenseConfig" =>
         response.ok /\ response.value \in PublicResults(adsense_config)

\* the public config was read from a store that holds a config row
C8_Witness ==
    /\ response.op = "getPublicAdSenseConfig"
    /\ response.value # Null
    /\ \E r \in adsense_config : r.publisher_id \in PublisherIds

----------------------------------------------------------------------------
(* Properties of the auth handler *)

\* C5: for a token issued by a successful login of user u at instant t,
\* verifyToken returns the user with id u exactly when u still exists, is
\* active and the clock is not past t + 24 hours; otherwise it returns null,
\* and it never throws.
C5_TokenValidity ==
    /\ \A i \in issued :
         LET r == verifyToken(DB, i.token, now)
             valid == /\ \E u \in users : u.id = i.userId /\ u.is_active
                      /\ now <= i.at + 24 * 60 * 60
         IN  /\ r.ok
             /\ r.db = DB
             /\ valid => /\ r.value # Null
                         /\ \A v \in r.value :
                              v.id = i.userId /\ "password_hash" \notin DOMAIN v
             /\ ~valid => r.value = Null
    /\ response.op = "verifyToken" =>
         /\ response.ok
         /\ response.value = verifyToken(DB, response.args.token, now).value

\* an issued token of a live, active user is still accepted at the very
\* second of its expiry
C5_Witness ==
    /\ response.op = "verifyToken"
    /\ response.value # Null
    /\ \E i \in issued : /\ response.args.token = i.token
                         /\ now = i.at + 24 * 60 * 60

\* the third of three parts is the signature of the first two
WellSigned(token) ==
    Len(token) = 3 /\ token[3] = Sign(token[1], token[2], JWT_SECRET)

\* C6: verifyToken returns null for every token one character away from an
\* issued token, and for every token that is not three parts of which the
\* third is the signature recomputed from the first two and the secret.
C6_TamperedRejected ==
    /\ \A i \in issued : \A token \in Tampered(i.token) :
         LET r == verifyToken(DB, token, now)
         IN  r.ok /\ r.value = Null
    /\ \A token \in TokenInputs :
         ~WellSigned(token) => verifyToken(DB, token, now).value = Null
    /\ (response.op = "verifyToken" /\ ~WellSigned(response.args.token)) =>
         response.ok /\ response.value = Null

\* a token whose payload names another user is refused while the token it
\* was made from is accepted
C6_Witness ==
    /\ response.op = "verifyToken"
    /\ response.value = Null
    /\ \E i \in issued :
         /\ verifyToken(DB, i.token, now).value # Null
         /\ response.args.token \in Tampered(i.token)
         /\ Len(response.args.token) = 3
         /\ Parses(response.args.token[2])
         /\ Decode(response.args.token[2]).userId # i.userId

InvalidCredentials == "Invalid email or password"
AccountDeactivated == "Account is deactivated"

\* C7: login fails InvalidCredentials for an unknown email, fails
\* AccountDeactivated for an inactive user whatever the password, fails
\* InvalidCredentials for an active user whose password hash does not match,
\* and succeeds otherwise; a failing login returns no token and leaves the
\* store and the issued tokens as they were.
C7_Step ==
    Answers({"login"}) =>
        LET input == response'.args.input
            found == {u \in users : u.email = input.email}
        IN  /\ found = {} =>
                  ~response'.ok /\ response'.error = InvalidCredentials
            /\ \A u \in found :
                 /\ ~u.is_active =>
                      ~response'.ok /\ response'.error = AccountDeactivated
                 /\ (u.is_active /\ u.password_hash # hashPassword(input.password)) =>
                      ~response'.ok /\ response'.error = InvalidCredentials
                 /\ (u.is_active /\ u.password_hash = hashPassword(input.password)) =>
                      /\ response'.ok
                      /\ response'.value.user.id = u.id
                      /\ "password_hash" \notin DOMAIN response'.value.user
                      /\ \E i \in issued' : i.token = response'.value.token
            /\ ~response'.ok =>
                 /\ response'.value = Null
                 /\ UNCHANGED <<tables, seq, issued>>

C7_LoginOrder == [][C7_Step]_vars

\* a deactivated user logged in with a wrong password and was told the
\* account is deactivated
C7_Witness ==
    /\ response.op = "login"
    /\ ~response.ok
    /\ response.error = AccountDeactivated
    /\ \E u \in users : /\ u.email = response.args.input.email
                        /\ ~u.is_active
                        /\ u.password_hash # hashPassword(response.args.input.password)

----------------------------------------------------------------------------
(* The blog post queries *)

\* JavaScript truthiness of an optional number or string field
TruthyNumber(input, f) == Has(input, f) /\ input[f] # 0
TruthyString(input, f) == Has(input, f) /\ input[f] # ""

\* the search words of the model and the texts each occurs in, letter case
\* aside (ILIKE '%word%')
Occurrences == {<<"title", "Title">>, <<"tent", "Content">>}
ILike(text, word) == <<word, text>> \in Occurrences

\* filteredPostIds: null, or the ids of the posts in the category and
\* carrying the tag
FilteredPostIds(d, input) ==
    LET inCategory == {r.blog_post_id :
                         r \in {x \in d.blog_post_categories :
                                  x.category_id = input.category_id}}
        withTag == {r.blog_post_id :
                      r \in {x \in d.blog_post_tags : x.tag_id = input.tag_id}}
    IN  IF TruthyNumber(input, "category_id") /\ TruthyNumber(input, "tag_id")
        THEN Some(inCategory \cap withTag)
        ELSE IF TruthyNumber(input, "category_id") THEN Some(inCategory)
        ELSE IF TruthyNumber(input, "tag_id") THEN Some(withTag)
        ELSE Null

\* the conjunction of the conditions the query collects
Conditions(d, input, p) ==
    /\ TruthyString(input, "status") => p.status = input.status
    /\ TruthyNumber(input, "author_id") => p.author_id = input.author_id
    /\ TruthyString(input, "search") =>
         \/ ILike(p.title, input.search)
         \/ ILike(p.content, input.search)
         \/ \E e \in p.excerpt : ILike(e, input.search)
    /\ \A ids \in FilteredPostIds(d, input) : p.id \in ids

\* the rows of the main query: posts joined to their authors
SelectedPosts(d, input) ==
    {p \in d.blog_posts : Conditions(d, input, p)
                          /\ \E u \in d.users : u.id = p.author_id}

\* ORDER BY created_at DESC: any order in which no older post comes first
NewestFirst(S) ==
    {o \in Orderings(S) :
       \A i, j \in 1..Cardinality(S) : i < j => o[i].created_at >= o[j].created_at}

\* { ...post, author, categories, tags }
WithRelations(d, post) ==
    [author |-> CHOOSE u \in d.users : u.id = post.author_id,
     categories |-> {c \in d.categories :
                       [blog_post_id |-> post.id, category_id |-> c.id]
                           \in d.blog_post_categories},
     tags |-> {g \in d.tags :
                 [blog_post_id |-> post.id, tag_id |-> g.id] \in d.blog_post_tags}]
    @@ post

\* getBlogPosts; `order` is the order the store returns the selected rows in,
\* one of NewestFirst(SelectedPosts(d, input))
getBlogPosts(d, input, order) ==
    LET offset == (input.page - 1) * input.limit
        total == Cardinality({p \in d.blog_posts : Conditions(d, input, p)})
        results == Page(order, input.limit, offset)
    IN  IF FilteredPostIds(d, input) = Some({})
        THEN Ok(d, [items |-> <<>>, total |-> 0, page |-> input.page,
                    limit |-> input.limit, totalPages |-> 0])
        ELSE Ok(d, [items |-> [i \in DOMAIN results |-> WithRelations(d, results[i])],
                    total |-> total, page |-> input.page, limit |-> input.limit,
                    totalPages |-> CeilDiv(total, input.limit)])

getBlogPostById(d, postId) ==
    LET results == {p \in d.blog_posts :
                      p.id = postId /\ \E u \in d.users : u.id = p.author_id}
    IN  Ok(d, {WithRelations(d, p) : p \in results})

getBlogPostBySlug(d, slug) ==
    LET results == {p \in d.blog_posts :
                      p.slug = slug /\ \E u \in d.users : u.id = p.author_id}
    IN  Ok(d, {WithRelations(d, p) : p \in results})

\* the spread the other way round: an author_id in the query wins
AuthorFiltered_QueryWins(authorId, input) == input @@ ("author_id" :> authorId)

\* { ...input, author_id: authorId }
AuthorFiltered(authorId, input) == ("author_id" :> authorId) @@ input

getMyBlogPosts(d, authorId, input, order) ==
    getBlogPosts(d, AuthorFiltered(authorId, input), order)

----------------------------------------------------------------------------
(* The router: middlewares and procedures *)

\* the context of a call: no user, or the id and role of the caller
Contexts ==
    {[user |-> Null], [user |-> Some([id |-> 1, role |-> "super_admin"])],
     [user |-> Some([id |-> 2, role |-> "author"])]}

\* ctx.user!
CtxUser(ctx) == CHOOSE u \in ctx.user : TRUE

publicProcedure(ctx) == "next"

authMiddleware(ctx) == IF ctx.user = Null THEN "UNAUTHORIZED" ELSE "next"

\* the super admin middleware letting every authenticated caller through
superAdminMiddleware_AnyRole(ctx) == authMiddleware(ctx)

\* authMiddleware piped into the role test
superAdminMiddleware(ctx) ==
    IF authMiddleware(ctx) # "next" THEN authMiddleware(ctx)
    ELSE IF CtxUser(ctx).role # "super_admin" THEN "FORBIDDEN"
    ELSE "next"

\* users.update and users.getById without their own test
SelfOrSuperAdmin_NoCheck(ctx, id) ==
    IF authMiddleware(ctx) # "next" THEN authMiddleware(ctx)
    ELSE "next"

\* authProcedure followed by the test users.update and users.getById make
\* before calling the handler
SelfOrSuperAdmin(ctx, id) ==
    IF authMiddleware(ctx) # "next" THEN authMiddleware(ctx)
    ELSE IF CtxUser(ctx).role # "super_admin" /\ id # CtxUser(ctx).id THEN "FORBIDDEN"
    ELSE "next"

\* a TRPCError thrown before the handler
Rejected(path, ctx, input, code) ==
    [op |-> path, ctx |-> ctx, args |-> input, handled |-> FALSE,
     ok |-> FALSE, value |-> Null, error |-> code]

\* what the handler returned or threw
Handled(path, ctx, input, r) ==
    [op |-> path, ctx |-> ctx, args |-> input, handled |-> TRUE,
     ok |-> r.ok, value |-> r.value, error |-> r.error]

\* one call of a procedure: the middlewares' verdict `gate`, then the
\* handler's outcome r
Procedure(path, ctx, input, gate, r) ==
    /\ response = None
    /\ IF gate # "next"
       THEN /\ response' = Rejected(path, ctx, input, gate)
            /\ UNCHANGED <<tables, seq>>
       ELSE /\ response' = Handled(path, ctx, input, r)
            /\ SetDB(r.db)
    /\ UNCHANGED <<now, adsCalls, issued, postCalls>>

----------------------------------------------------------------------------
(* Calls of the router *)

\* the inputs the router's procedures are called with, by procedure; salts
\* are what the password hashing of users.create may draw
RouterInputs ==
    [usersCreate |->
         {[email |-> "new@example.com", username |-> "new", password |-> "new-password",
           first_name |-> "Nia", last_name |-> "New", role |-> "author"]},
     salts |-> {"salt-1"},
     usersUpdate |-> {[id |-> 1, first_name |-> "Renamed"],
                      [id |-> 2, role |-> "super_admin"]},
     usersDelete |-> {2},
     usersList |-> {[page |-> 1, limit |-> 2]},
     entityCreate |-> {[name |-> "Gamma", slug |-> "gamma"]},
     entityUpdate |-> {[id |-> 1, name |-> "Gamma"]},
     entityDelete |-> {1},
     entityGetBySlug |-> {"alpha", "gamma"},
     postsCreate |->
         {[title |-> "Title", slug |-> "first-post", content |-> "Content",
           status |-> "draft", category_ids |-> <<1>>]},
     postsUpdate |-> {[id |-> p, status |-> "published"] : p \in PostIds},
     postsList |-> {[page |-> 1, limit |-> 2] @@ st : st \in Opt("status", {"published"})},
     adsenseUpdateConfig |-> {[publisher_id |-> "ca-pub-1", is_enabled |-> TRUE]}]

Healthcheck ==
    \E ctx \in Contexts :
        Procedure("healthcheck", ctx, <<>>, publicProcedure(ctx),
                  Ok(DB, [status |-> "ok", timestamp |-> now]))

\* auth.login; the router's clients do not keep the token
AuthLogin ==
    \E ctx \in Contexts, input \in LoginInputs :
        Procedure("auth.login", ctx, input, publicProcedure(ctx),
                  login(DB, input, now))

AuthMe ==
    \E ctx \in Contexts :
        Procedure("auth.me", ctx, <<>>, authMiddleware(ctx),
                  getCurrentUser(DB, CtxUser(ctx).id))

UsersCreate ==
    \E ctx \in Contexts, input \in RouterInputs.usersCreate, salt \in RouterInputs.salts :
        Procedure("users.create", ctx, input, superAdminMiddleware(ctx),
                  createUser(DB, input, salt, now))

UsersUpdate ==
    \E ctx \in Contexts, input \in RouterInputs.usersUpdate :
        Procedure("users.update", ctx, input, SelfOrSuperAdmin(ctx, input.id),
                  updateUser(DB, input, now))

UsersDelete ==
    \E ctx \in Contexts, input \in RouterInputs.usersDelete :
        Procedure("users.delete", ctx, input, superAdminMiddleware(ctx),
                  deleteUser(DB, input))

UsersList ==
    \E ctx \in Contexts, input \in RouterInputs.usersList, order \in Orderings(users) :
        Procedure("users.list", ctx, input, superAdminMiddleware(ctx),
                  getUsers(DB, input, order))

UsersGetById ==
    \E ctx \in Contexts, input \in UserIds :
        Procedure("users.getById", ctx, input, SelfOrSuperAdmin(ctx, input),
                  getUserById(DB, input))

CategoriesCreate ==
    \E ctx \in Contexts, input \in RouterInputs.entityCreate :
        Procedure("categories.create", ctx, input, superAdminMiddleware(ctx),
                  createCategory(DB, input, now))

CategoriesUpdate ==
    \E ctx \in Contexts, input \in RouterInputs.entityUpdate :
        Procedure("categories.update", ctx, input, superAdminMiddleware(ctx),
                  updateCategory(DB, input, now))

CategoriesDelete ==
    \E ctx \in Contexts, input \in RouterInputs.entityDelete :
        Procedure("categories.delete", ctx, input, superAdminMiddleware(ctx),
                  deleteCategory(DB, input))

CategoriesList ==
    \E ctx \in Contexts, order \in {o \in Orderings(categories) : SortedByName(o)} :
        Procedure("categories.list", ctx, <<>>, publicProcedure(ctx),
                  getCategories(DB, order))

CategoriesGetById ==
    \E ctx \in Contexts, input \in CategoryIds :
        Procedure("categories.getById", ctx, input, publicProcedure(ctx),
                  getCategoryById(DB, input))

CategoriesGetBySlug ==
    \E ctx \in Contexts, input \in RouterInputs.entityGetBySlug :
        Procedure("categories.getBySlug", ctx, input, publicProcedure(ctx),
                  getCategoryBySlug(DB, input))

TagsCreate ==
    \E ctx \in Contexts, input \in RouterInputs.entityCreate :
        Procedure("tags.create", ctx, input, superAdminMiddleware(ctx),
                  createTag(DB, input, now))

TagsUpdate ==
    \E ctx \in Contexts, input \in RouterInputs.entityUpdate :
        Procedure("tags.update", ctx, input, superAdminMiddleware(ctx),
                  updateTag(DB, input, now))

TagsDelete ==
    \E ctx \in Contexts, input \in RouterInputs.entityDelete :
        Procedure("tags.delete", ctx, input, superAdminMiddleware(ctx),
                  deleteTag(DB, input))

TagsList ==
    \E ctx \in Contexts, order \in {o \in Orderings(tags) : SortedByName(o)} :
        Procedure("tags.list", ctx, <<>>, publicProcedure(ctx),
                  getTags(DB, order))

TagsGetById ==
    \E ctx \in Contexts, input \in TagIds :
        Procedure("tags.getById", ctx, input, publicProcedure(ctx),
                  getTagById(DB, input))

TagsGetBySlug ==
    \E ctx \in Contexts, input \in RouterInputs.entityGetBySlug :
        Procedure("tags.getBySlug", ctx, input, publicProcedure(ctx),
                  getTagBySlug(DB, input))

PostsCreate ==
    \E ctx \in Contexts, input \in RouterInputs.postsCreate :
        Procedure("posts.create", ctx, input, authMiddleware(ctx),
                  createBlogPost(DB, input, CtxUser(ctx).id, now))

PostsUpdate ==
    \E ctx \in Contexts, input \in RouterInputs.postsUpdate :
        Procedure("posts.update", ctx, input, authMiddleware(ctx),
                  updateBlogPost(DB, input, CtxUser(ctx).id, CtxUser(ctx).role, now))

PostsDelete ==
    \E ctx \in Contexts, input \in PostIds :
        Procedure("posts.delete", ctx, input, authMiddleware(ctx),
                  deleteBlogPost(DB, input, CtxUser(ctx).id, CtxUser(ctx).role))

PostsGetById ==
    \E ctx \in Contexts, input \in PostIds :
        Procedure("posts.getById", ctx, input, publicProcedure(ctx),
                  getBlogPostById(DB, input))

PostsGetBySlug ==
    \E ctx \in Contexts, input \in Slugs :
        Procedure("posts.getBySlug", ctx, input, publicProcedure(ctx),
                  getBlogPostBySlug(DB, input))

AdsenseGetConfig ==
    \E ctx \in Contexts, first \in LimitOne(adsense_config) :
        Procedure("adsense.getConfig", ctx, <<>>, superAdminMiddleware(ctx),
                  getAdSenseConfig(DB, first))

AdsenseGetPublicConfig ==
    \E ctx \in Contexts, first \in LimitOne(adsense_config) :
        Procedure("adsense.getPublicConfig", ctx, <<>>, publicProcedure(ctx),
                  getPublicAdSenseConfig(DB, first))

PostsList ==
    \E ctx \in Contexts, input \in RouterInputs.postsList :
        \E order \in NewestFirst(SelectedPosts(DB, input)) :
            Procedure("posts.list", ctx, input, publicProcedure(ctx),
                      getBlogPosts(DB, input, order))

\* the order is that of the rows selected for the caller, if there is one
PostsMyPosts ==
    \E ctx \in Contexts, input \in RouterInputs.postsList :
        \E order \in IF ctx.user = Null THEN {<<>>}
                     ELSE NewestFirst(SelectedPosts(DB,
                              AuthorFiltered(CtxUser(ctx).id, input))) :
            Procedure("posts.myPosts", ctx, input, authMiddleware(ctx),
                      getMyBlogPosts(DB, CtxUser(ctx).id, input, order))

\* adsense.updateConfig, the check and the write in one step
AdsenseUpdateConfig ==
    \E ctx \in Contexts, input \in RouterInputs.adsenseUpdateConfig, first \in LimitOne(adsense_config) :
        LET after == WriteAdSenseConfig(DB, input, first, now)
        IN  \E returned \in WrittenRows(DB, after, first) :
                Procedure("adsense.updateConfig", ctx, input,
                          superAdminMiddleware(ctx), Ok(after, returned))

NextRouter ==
    \/ Healthcheck
    \/ AuthLogin
    \/ AuthMe
    \/ UsersCreate
    \/ UsersUpdate
    \/ UsersDelete
    \/ UsersList
    \/ UsersGetById
    \/ CategoriesCreate
    \/ CategoriesUpdate
    \/ CategoriesDelete
    \/ CategoriesList
    \/ CategoriesGetById
    \/ CategoriesGetBySlug
    \/ TagsCreate
    \/ TagsUpdate
    \/ TagsDelete
    \/ TagsList
    \/ TagsGetById
    \/ TagsGetBySlug
    \/ PostsCreate
    \/ PostsUpdate
    \/ PostsDelete
    \/ PostsGetById
    \/ PostsGetBySlug
    \/ AdsenseGetConfig
    \/ AdsenseGetPublicConfig
    \/ PostsList
    \/ PostsMyPosts
    \/ AdsenseUpdateConfig
    \/ Deliver

SpecRouter == Init /\ [][NextRouter]_vars

----------------------------------------------------------------------------
(* Properties of the router *)

SuperAdminOnly ==
    {"users.create", "users.delete", "users.list",
     "categories.create", "categories.update", "categories.delete",
     "tags.create", "tags.update", "tags.delete",
     "adsense.getConfig", "adsense.updateConfig"}

Authenticated ==
    {"auth.me", "users.update", "users.getById",
     "posts.create", "posts.update", "posts.delete", "posts.myPosts"}

\* the call answered in this step was refused with `code` before its handler
RefusedWith(code) ==
    /\ ~response'.ok
    /\ response'.error = code
    /\ ~response'.handled
    /\ response'.value = Null
    /\ UNCHANGED <<tables, seq>>

\* C9: a super-admin-only procedure refuses a call without a user with
\* UNAUTHORIZED and a call of a user whose role is not super_admin with
\* FORBIDDEN; an authenticated procedure refuses a call without a user with
\* UNAUTHORIZED; a refused call does not run the handler and leaves the
\* store unchanged.
C9_Step ==
    Answers(SuperAdminOnly \cup Authenticated) =>
        /\ response'.ctx.user = Null => RefusedWith("UNAUTHORIZED")
        /\ (response'.op \in SuperAdminOnly
            /\ \E u \in response'.ctx.user : u.role # "super_admin") =>
               RefusedWith("FORBIDDEN")

C9_Gates == [][C9_Step]_vars

\* an author called a super-admin-only procedure and was refused
C9_Witness ==
    /\ response.op \in SuperAdminOnly
    /\ \E u \in response.ctx.user : u.role = "author"
    /\ response.error = "FORBIDDEN"
    /\ ~response.handled

\* C10: users.update and users.getById called by a user whose role is not
\* super_admin for an id other than the caller's fail with FORBIDDEN, the
\* handler not run, the store unchanged, no user data returned; for the
\* caller's own id, or called by a super_admin, they run the handler.
C10_Step ==
    Answers({"users.update", "users.getById"}) =>
        \A u \in response'.ctx.user :
            LET target == IF response'.op = "users.update" THEN response'.args.id
                          ELSE response'.args
            IN  IF u.role # "super_admin" /\ target # u.id
                THEN RefusedWith("FORBIDDEN")
                ELSE /\ response'.handled
                     /\ response'.op = "users.getById" =>
                          /\ response'.ok
                          /\ response'.value = {v \in users : v.id = target}
                     /\ response'.op = "users.update" =>
                          /\ response'.ok <=> \E v \in users : v.id = target
                          /\ response'.ok =>
                               /\ response'.value.id = target
                               /\ response'.value \in users'

C10_SelfOrSuperAdmin == [][C10_Step]_vars

\* an author asked to update another user and was refused
C10_Witness ==
    /\ response.op = "users.update"
    /\ \E u \in response.ctx.user : u.role = "author" /\ u.id # response.args.id
    /\ response.error = "FORBIDDEN"
    /\ ~response.handled

----------------------------------------------------------------------------
(* The handlers called one after another: each call is made at a later     *)
(* instant than the one before, MaxCalls calls in all                      *)

MaxCalls == 3
MaxPage == 3
MaxLimit == 2

\* the inputs the handlers are called with, by handler: fresh and colliding
\* emails, usernames and slugs, ids that exist and ids that do not, repeated
\* ids, filters that are zero
WriteInputs ==
    [createUser |->
         {[email |-> e, username |-> u, password |-> "new-password",
           first_name |-> "Nia", last_name |-> "New", role |-> "author"] :
             <<e, u>> \in {<<"new@example.com", "new">>,
                           <<AdminData.email, "fresh">>,
                           <<"fresh@example.com", AdminData.username>>}},
     salts |-> {"salt-1"},
     login |-> [email : {"new@example.com"},
                password : {"new-password", "wrong-password"}],
     updateUser |->
         {[id |-> id] @@ f : id \in UserIds,
                             f \in {"email" :> AuthorData.email,
                                    "username" :> AdminData.username,
                                    "is_active" :> FALSE,
                                    "bio" :> Some("Bio"), "bio" :> Null,
                                    "role" :> "super_admin"}},
     userIds |-> UserIds \cup {3},
     createEntity |-> {[name |-> "Gamma", slug |-> sl] : sl \in {"gamma", "alpha"}},
     updateEntity |-> {[id |-> 2, slug |-> sl] : sl \in {"gamma", "alpha"}},
     describe |-> {[id |-> 2, description |-> d] : d \in {Some("About"), Null}},
     entityIds |-> {1, 3},
     createBlogPost |->
         {[title |-> "Title", slug |-> "first-post", content |-> "Content",
           excerpt |-> Some("Short"),
           status |-> "published", category_ids |-> <<1>>, tag_ids |-> <<1>>],
          [title |-> "Title", slug |-> "second-post", content |-> "Content",
           status |-> "draft", category_ids |-> <<2>>, tag_ids |-> <<2>>],
          [title |-> "Title", slug |-> "first-post", content |-> "Content",
           status |-> "draft", category_ids |-> <<1, 2>>],
          [title |-> "Title", slug |-> "second-post", content |-> "Content",
           status |-> "draft", category_ids |-> <<1, 1>>, tag_ids |-> <<>>]},
     updateBlogPost |->
         {[id |-> 2, slug |-> "first-post"], [id |-> 1, slug |-> "third-post"],
          [id |-> 1, category_ids |-> <<2>>], [id |-> 1, category_ids |-> <<1, 1>>],
          [id |-> 1, category_ids |-> <<>>], [id |-> 1, tag_ids |-> <<3>>],
          [id |-> 1, status |-> "published"], [id |-> 1, status |-> "draft"],
          [id |-> 1, excerpt |-> Null]},
     callers |-> {[id |-> 1, role |-> "super_admin"], [id |-> 2, role |-> "author"]},
     postIds |-> {1},
     getBlogPosts |->
        {[page |-> page, limit |-> limit] @@ f :
           page \in 1..2, limit \in 1..MaxLimit,
           f \in {<<>>, [status |-> "published"], [author_id |-> 1], [author_id |-> 0],
                  [category_id |-> 1], [tag_id |-> 2], [category_id |-> 0],
                  [category_id |-> 2, tag_id |-> 1],
                  [status |-> "draft", author_id |-> 2]}}]

\* one call of a handler with outcome r, and the clock moving on
Call(op, args, r) ==
    /\ response = None
    /\ now < MaxCalls
    /\ SetDB(r.db)
    /\ response' = Reply(op, args, r)
    /\ now' = now + 1
    /\ UNCHANGED <<adsCalls, issued, postCalls>>

UserCalls ==
    \/ \E input \in WriteInputs.createUser, salt \in WriteInputs.salts :
         Call("createUser", [input |-> input], createUser(DB, input, salt, now))
    \/ \E input \in WriteInputs.updateUser :
         Call("updateUser", [input |-> input], updateUser(DB, input, now))
    \/ \E userId \in WriteInputs.userIds :
         Call("deleteUser", [userId |-> userId], deleteUser(DB, userId))
    \/ \E input \in WriteInputs.login :
         Call("login", [input |-> input], login(DB, input, now))
    \/ \E page \in 1..MaxPage, limit \in 1..MaxLimit, order \in Orderings(users) :
         Call("getUsers", [input |-> [page |-> page, limit |-> limit]],
              getUsers(DB, [page |-> page, limit |-> limit], order))

EntityCalls ==
    \/ \E input \in WriteInputs.createEntity :
         Call("createCategory", [input |-> input], createCategory(DB, input, now))
    \/ \E input \in WriteInputs.updateEntity \cup WriteInputs.describe :
         Call("updateCategory", [input |-> input], updateCategory(DB, input, now))
    \/ \E id \in WriteInputs.entityIds :
         Call("deleteCategory", [id |-> id], deleteCategory(DB, id))
    \/ \E input \in WriteInputs.createEntity :
         Call("createTag", [input |-> input], createTag(DB, input, now))
    \/ \E input \in WriteInputs.updateEntity :
         Call("updateTag", [input |-> input], updateTag(DB, input, now))
    \/ \E id \in WriteInputs.entityIds :
         Call("deleteTag", [id |-> id], deleteTag(DB, id))

PostCalls ==
    \/ \E input \in WriteInputs.createBlogPost, authorId \in WriteInputs.userIds :
         Call("createBlogPost", [input |-> input, authorId |-> authorId],
              createBlogPost(DB, input, authorId, now))
    \/ \E input \in WriteInputs.updateBlogPost, c \in WriteInputs.callers :
         Call("updateBlogPost", [input |-> input, currentUserId |-> c.id,
                                 currentUserRole |-> c.role],
              updateBlogPost(DB, input, c.id, c.role, now))
    \/ \E postId \in WriteInputs.postIds, c \in WriteInputs.callers :
         Call("deleteBlogPost", [postId |-> postId, currentUserId |-> c.id,
                                 currentUserRole |-> c.role],
              deleteBlogPost(DB, postId, c.id, c.role))

QueryCalls ==
    \/ \E input \in WriteInputs.getBlogPosts :
         \E order \in NewestFirst(SelectedPosts(DB, input)) :
           Call("getBlogPosts", [input |-> input], getBlogPosts(DB, input, order))
    \/ \E input \in WriteInputs.getBlogPosts, authorId \in UserIds :
         \E order \in NewestFirst(SelectedPosts(DB, AuthorFiltered(authorId, input))) :
           Call("getMyBlogPosts", [input |-> input, authorId |-> authorId],
                getMyBlogPosts(DB, authorId, input, order))

NextWrites == UserCalls \/ EntityCalls \/ PostCalls \/ QueryCalls \/ Deliver

SpecWrites == Init /\ [][NextWrites]_vars

----------------------------------------------------------------------------
(* Properties of the handlers called one after another *)

\* no two rows share the value of field f
Unique(rows, f) == \A a, b \in rows : a[f] = b[f] => a = b

UniqueKeys ==
    /\ Unique(users, "email")
    /\ Unique(users, "username")
    /\ Unique(categories, "slug")
    /\ Unique(tags, "slug")
    /\ Unique(blog_posts, "slug")

\* a row other than the one with id `self` already has input's value of f
Taken(rows, input, f, self) ==
    Has(input, f) /\ \E r \in rows : r.id # self /\ r[f] = input[f]

\* the call answered in this step would have produced two rows with the
\* same email, username or slug
WouldCollide ==
    LET op == response'.op
        input == response'.args.input
        Updates(rows) == \E r \in rows : r.id = input.id
    IN  \/ op = "createUser"
           /\ (Taken(users, input, "email", 0) \/ Taken(users, input, "username", 0))
        \/ op = "updateUser" /\ Updates(users)
           /\ (Taken(users, input, "email", input.id)
               \/ Taken(users, input, "username", input.id))
        \/ op = "createCategory" /\ Taken(categories, input, "slug", 0)
        \/ op = "updateCategory" /\ Updates(categories)
           /\ Taken(categories, input, "slug", input.id)
        \/ op = "createTag" /\ Taken(tags, input, "slug", 0)
        \/ op = "updateTag" /\ Updates(tags) /\ Taken(tags, input, "slug", input.id)
        \/ op = "createBlogPost" /\ Taken(blog_posts, input, "slug", 0)
        \/ op = "updateBlogPost" /\ Updates(blog_posts)
           /\ Taken(blog_posts, input, "slug", input.id)

C11_Step ==
    /\ UniqueKeys'
    /\ (Answers({"createUser", "updateUser", "createCategory", "updateCategory",
                 "createTag", "updateTag", "createBlogPost", "updateBlogPost"})
        /\ WouldCollide) =>
           ~response'.ok /\ UNCHANGED <<tables, seq>>

\* C11: in every reachable state no two users share an email or a username
\* and no two categories, tags or posts share a slug; a create or update
\* that would produce such a collision fails and leaves the store unchanged.
C11_Uniqueness == UniqueKeys /\ [][C11_Step]_vars

\* a post was refused the slug of another post
C11_Witness ==
    /\ response.op = "updateBlogPost"
    /\ ~response.ok
    /\ response.error = UniqueViolation
    /\ \E p \in blog_posts : p.id # response.args.input.id
                             /\ p.slug = response.args.input.slug

NotFound ==
    {"Author not found", "One or more categories not found",
     "One or more tags not found", "Blog post not found", "User not found",
     "Category not found", "Tag not found"}

\* some id referenced by a createBlogPost input does not exist in the store
MissingReference(input, authorId) ==
    \/ ~ \E u \in users : u.id = authorId
    \/ \E c \in Range(input.category_ids) : ~ \E k \in categories : k.id = c
    \/ /\ Has(input, "tag_ids")
       /\ \E g \in Range(input.tag_ids) : ~ \E k \in tags : k.id = g

C12_Step ==
    (Answers({"createBlogPost"})
     /\ ~ \E p \in blog_posts : p.slug = response'.args.input.slug) =>
        LET input == response'.args.input
            authorId == response'.args.authorId
        IN  IF MissingReference(input, authorId)
            THEN ~response'.ok /\ response'.error \in NotFound
            ELSE /\ response'.ok
                 /\ response'.value.author_id = authorId
                 /\ blog_posts' = blog_posts \cup {response'.value}
                 /\ blog_post_categories' = blog_post_categories
                        \cup CategoryRows(response'.value.id, Range(input.category_ids))
                 /\ blog_post_tags' = blog_post_tags
                        \cup (IF Has(input, "tag_ids")
                              THEN TagRows(response'.value.id, Range(input.tag_ids)) ELSE {})

\* C12: createBlogPost with an unused slug fails NotFound exactly when the
\* author, a category id or (tag_ids being non-empty) a tag id does not
\* exist; when every referenced id exists it succeeds and inserts the post
\* with author_id = authorId and one association row per category and tag id.
C12_CreateNotFound == [][C12_Step]_vars

----------------------------------------------------------------------------
(* createBlogPost and updateBlogPost statement by statement: every await   *)
(* of the handler is a step of its own, and the handlers run in no          *)
(* transaction, so the statements of other calls come in between            *)

\* the statement after `pc` that the call's input makes the handler execute
NextStatement(call, pc) ==
    LET input == call.input
        lists(f) == Has(input, f) /\ Len(input[f]) > 0
        order == IF call.op = "createBlogPost"
                 THEN <<"author", "categories", "tags", "write",
                        "linkCategories", "linkTags", "done">>
                 ELSE <<"load", "categories", "tags", "write", "unlinkCategories",
                        "linkCategories", "unlinkTags", "linkTags", "done">>
        runs(st) == CASE st \in {"categories", "linkCategories"} -> lists("category_ids")
                      [] st \in {"tags", "linkTags"} -> lists("tag_ids")
                      [] st = "unlinkCategories" -> Has(input, "category_ids")
                      [] st = "unlinkTags" -> Has(input, "tag_ids")
                      [] OTHER -> TRUE
        at == CHOOSE i \in DOMAIN order : order[i] = pc
    IN  order[CHOOSE i \in DOMAIN order :
                /\ i > at /\ runs(order[i])
                /\ \A j \in (at + 1)..(i - 1) : ~runs(order[j])]

\* the call after a statement that did not throw
Proceed(d, call) == [db |-> d, call |-> [call EXCEPT !.pc = NextStatement(call, call.pc)]]

\* the call after a statement that threw e
Throw(d, call, e) == [db |-> d, call |-> [call EXCEPT !.pc = "thrown", !.error = e]]

\* the statement at call.pc executed on store d at instant t
Statement(d, call, t) ==
    LET input == call.input
        post == CHOOSE p \in call.post : TRUE
    IN  CASE call.pc = "author" ->
               IF ~ \E u \in d.users : u.id = call.userId
               THEN Throw(d, call, "Author not found") ELSE Proceed(d, call)
          [] call.pc = "load" ->
               LET existingPost == {p \in d.blog_posts : p.id = input.id}
               IN  IF existingPost = {} THEN Throw(d, call, "Blog post not found")
                   ELSE IF \E p \in existingPost : ~MayModifyPost(p, call.userId, call.role)
                   THEN Throw(d, call, "Permission denied: can only update your own posts")
                   ELSE Proceed(d, [call EXCEPT !.post = existingPost])
          [] call.pc = "categories" ->
               IF Cardinality(SelectByIds(d.categories, input.category_ids))
                      # Len(input.category_ids)
               THEN Throw(d, call, "One or more categories not found")
               ELSE Proceed(d, call)
          [] call.pc = "tags" ->
               IF Cardinality(SelectByIds(d.tags, input.tag_ids)) # Len(input.tag_ids)
               THEN Throw(d, call, "One or more tags not found")
               ELSE Proceed(d, call)
          [] call.pc = "write" /\ call.op = "createBlogPost" ->
               LET ins == InsertBlogPost(d,
                            [title |-> input.title, slug |-> input.slug,
                             content |-> input.content,
                             excerpt |-> OrNull(input, "excerpt"),
                             author_id |-> call.userId,
                             featured_image_url |-> OrNull(input, "featured_image_url"),
                             status |-> input.status,
                             published_at |-> CreatePublishedAt(input, t)], t)
               IN  IF ~ins.ok THEN Throw(ins.db, call, ins.error)
                   ELSE Proceed(ins.db, [call EXCEPT !.post = ins.rows])
          [] call.pc = "write" /\ call.op = "updateBlogPost" ->
               LET upd == UpdateBlogPostRow(d, input.id, UpdateValues(post, input, t))
               IN  IF ~upd.ok THEN Throw(upd.db, call, upd.error)
                   ELSE Proceed(upd.db, [call EXCEPT !.result = upd.rows])
          [] call.pc = "unlinkCategories" ->
               Proceed([d EXCEPT !.blog_post_categories =
                          {r \in @ : r.blog_post_id # post.id}], call)
          [] call.pc = "linkCategories" ->
               LET c == InsertPostCategories(d, post.id, input.category_ids)
               IN  IF ~c.ok THEN Throw(c.db, call, c.error) ELSE Proceed(c.db, call)
          [] call.pc = "unlinkTags" ->
               Proceed([d EXCEPT !.blog_post_tags =
                          {r \in @ : r.blog_post_id # post.id}], call)
          [] call.pc = "linkTags" ->
               LET g == InsertPostTags(d, post.id, input.tag_ids)
               IN  IF ~g.ok THEN Throw(g.db, call, g.error) ELSE Proceed(g.db, call)

\* the calls that race: one post is created, then updated by calls that
\* replace its categories or its tags
RaceInputs ==
    [createBlogPost |->
        {[title |-> "First", slug |-> "first-post", content |-> "Text",
          status |-> "draft", category_ids |-> <<1>>, tag_ids |-> <<1>>]},
     updateBlogPost |->
        {[id |-> 1, category_ids |-> <<1>>, tag_ids |-> <<1>>],
         [id |-> 1, category_ids |-> <<2>>, tag_ids |-> <<2>>],
         [id |-> 1, status |-> "published"], [id |-> 1, status |-> "draft"]},
     callers |-> {[id |-> 1, role |-> "super_admin"]}]

\* the rows of post `postId` in the store: what a write of that post may touch
PostState(d, postId) ==
    [post |-> {p \in d.blog_posts : p.id = postId},
     categories |-> {r \in d.blog_post_categories : r.blog_post_id = postId},
     tags |-> {r \in d.blog_post_tags : r.blog_post_id = postId}]

\* what a slot's record says of the call in it to the calls it overlaps
Overlap(call) == [op |-> call.op, input |-> call.input]

\* a request arrives: the handler is entered with its arguments; the clock
\* advances with every request and MaxCalls requests are made.  Each call
\* keeps the rows of its post when it began (before) and the calls that
\* were in flight while it was (overlapped).
PostBegin(c) ==
    \E op \in {"createBlogPost", "updateBlogPost"} :
      \E input \in RaceInputs[op], caller \in RaceInputs.callers :
        /\ response = None
        /\ postCalls[c] = Idle
        /\ now < MaxCalls
        /\ now' = now + 1
        /\ op = "createBlogPost" => seq.blog_posts <= MaxPosts
        /\ postCalls' =
             [o \in DOMAIN postCalls |->
                IF o = c
                THEN [op |-> op, input |-> input, userId |-> caller.id,
                      role |-> caller.role,
                      pc |-> IF op = "createBlogPost" THEN "author" ELSE "load",
                      error |-> "", post |-> {}, result |-> {},
                      before |-> PostState(DB, IF op = "createBlogPost"
                                               THEN seq.blog_posts ELSE input.id),
                      overlapped |-> {Overlap(postCalls[x]) :
                                        x \in {y \in DOMAIN postCalls :
                                                 postCalls[y] # Idle}}]
                ELSE IF postCalls[o] = Idle THEN Idle
                ELSE [postCalls[o] EXCEPT
                        !.overlapped = @ \cup {[op |-> op, input |-> input]}]]
        /\ UNCHANGED <<tables, seq, response, adsCalls, issued>>

\* what the call resolves or rejects with
Outcome(call) ==
    IF call.pc = "thrown" THEN [ok |-> FALSE, value |-> Null, error |-> call.error]
    ELSE [ok |-> TRUE, error |-> "",
          value |-> CHOOSE r \in (IF call.op = "createBlogPost" THEN call.post
                                  ELSE call.result) : TRUE]

\* the call in slot c executes its next statement; after the last one, or
\* after one that throws, the caller gets the answer and the slot is free.
\* A call that throws did not complete: the calls it overlapped forget it.
PostStep(c) ==
    /\ response = None
    /\ postCalls[c] # Idle
    /\ LET s == Statement(DB, postCalls[c], now)
       IN  /\ SetDB(s.db)
           /\ IF s.call.pc \in {"done", "thrown"}
              THEN /\ response' = Reply(s.call.op,
                                        [input |-> s.call.input, slot |-> c,
                                         call |-> s.call], Outcome(s.call))
                   /\ postCalls' =
                        [o \in DOMAIN postCalls |->
                           IF o = c \/ postCalls[o] = Idle THEN Idle
                           ELSE IF s.call.pc = "done" THEN postCalls[o]
                           ELSE [postCalls[o] EXCEPT
                                   !.overlapped = @ \ {Overlap(s.call)}]]
              ELSE /\ postCalls' = [postCalls EXCEPT ![c] = s.call]
                   /\ UNCHANGED response
    /\ UNCHANGED <<now, adsCalls, issued>>

NextRace ==
    \/ \E c \in 1..MaxPostCalls : PostBegin(c)
    \/ \E c \in 1..MaxPostCalls : PostStep(c)
    \/ DeleteCategory
    \/ DeleteTag
    \/ Deliver

SpecRace == Init /\ [][NextRace]_vars

----------------------------------------------------------------------------
(* Post writes racing with deleteCategory and deleteTag *)

\* the association rows that the deletes of categories and tags leave in
\* place: those whose category or tag is still in `kept`
Surviving(rows, f, kept) == {r \in rows : \E k \in kept : k.id = r[f]}

C13_Step ==
    (Answers({"createBlogPost", "updateBlogPost"})
     /\ response'.error = ForeignKeyViolation) =>
        LET call == response'.args.call
            id == call.input.id
        IN  IF call.op = "createBlogPost"
            THEN /\ call.post \cap blog_posts' = {}
                 /\ \A p \in call.post :
                      /\ ~ \E r \in blog_post_categories' : r.blog_post_id = p.id
                      /\ ~ \E r \in blog_post_tags' : r.blog_post_id = p.id
            ELSE /\ {p \in blog_posts' : p.id = id} = call.before.post
                 /\ {r \in blog_post_categories' : r.blog_post_id = id}
                      = Surviving(call.before.categories, "category_id", categories')
                 /\ {r \in blog_post_tags' : r.blog_post_id = id}
                      = Surviving(call.before.tags, "tag_id", tags')

\* C13: a createBlogPost or updateBlogPost that runs into a category or tag
\* deleted meanwhile (the insert of its association rows is refused by the
\* foreign key) fails with no effect: the post row it wrote is not in the
\* store, no post row is modified, and no association row of the post is
\* added or removed.
C13_AtomicWrites == [][C13_Step]_vars

----------------------------------------------------------------------------
(* The user list *)

Min(a, b) == IF a < b THEN a ELSE b
Max(a, b) == IF a > b THEN a ELSE b

C14_Step ==
    Answers({"getUsers"}) =>
        LET v == response'.value
            page == response'.args.input.page
            limit == response'.args.input.limit
            N == Cardinality(users)
        IN  /\ response'.ok
            /\ v.total = N
            /\ v.totalPages * limit >= N /\ (v.totalPages - 1) * limit < N
            /\ v.page = page /\ v.limit = limit
            /\ Len(v.items) = Min(limit, Max(0, N - (page - 1) * limit))
            /\ Range(v.items) \subseteq users
            /\ Cardinality(Range(v.items)) = Len(v.items)
            /\ page > v.totalPages => v.items = <<>>

\* C14: getUsers on a store of N users answers total = N, totalPages =
\* ceil(N / limit), the requested page and limit, and exactly
\* min(limit, max(0, N - (page - 1) * limit)) distinct users; a page beyond
\* totalPages has no items and still total = N.
C14_UserPages == [][C14_Step]_vars

\* getUsers answered the last, partly filled page of three users
C14_Witness ==
    /\ response.op = "getUsers"
    /\ response.value.total = 3
    /\ response.args.input = [page |-> 2, limit |-> 2]
    /\ Len(response.value.items) = 1

----------------------------------------------------------------------------
(* The post list *)

\* the posts that the filters supplied in the query select
Matching(input) ==
    {p \in blog_posts :
       /\ Has(input, "status") => p.status = input.status
       /\ Has(input, "author_id") => p.author_id = input.author_id
       /\ Has(input, "category_id") =>
            [blog_post_id |-> p.id, category_id |-> input.category_id]
                \in blog_post_categories
       /\ Has(input, "tag_id") =>
            [blog_post_id |-> p.id, tag_id |-> input.tag_id] \in blog_post_tags}

\* v is the page of `input` over the posts S, newest first
IsPageOf(v, input, S) ==
    LET offset == (input.page - 1) * input.limit
    IN  /\ v.total = Cardinality(S)
        /\ v.totalPages * input.limit >= v.total
        /\ (v.totalPages - 1) * input.limit < v.total
        /\ v.page = input.page /\ v.limit = input.limit
        /\ Len(v.items) = Min(input.limit, Max(0, v.total - offset))
        /\ \A i \in DOMAIN v.items :
             /\ \E p \in S : p.id = v.items[i].id
             /\ Cardinality({p \in S : p.created_at > v.items[i].created_at})
                  = offset + i - 1

C15_Step ==
    Answers({"getBlogPosts"}) =>
        /\ response'.ok
        /\ IsPageOf(response'.value, response'.args.input, Matching(response'.args.input))

\* C15: getBlogPosts answers with the posts that satisfy every supplied
\* filter (status, author_id, an association row with category_id, an
\* association row with tag_id): total is their number, totalPages =
\* ceil(total / limit), items is the page-th slice of at most limit of them,
\* newest first; no candidate for the category or tag gives items = [],
\* total = 0, totalPages = 0.
C15_FilterConjunction == [][C15_Step]_vars

\* the query with author_id replaced by authorId
Replaced(input, authorId) ==
    [f \in DOMAIN input \cup {"author_id"} |->
       IF f = "author_id" THEN authorId ELSE input[f]]

\* a category_id or tag_id of 0 is no filter to getBlogPosts (C15): for those
\* queries the count is compared with that of getBlogPosts only
C16_Step ==
    Answers({"getMyBlogPosts"}) =>
        LET input == response'.args.input
            authorId == response'.args.authorId
            query == Replaced(input, authorId)
            v == response'.value
        IN  /\ \E order \in NewestFirst(SelectedPosts(DB, query)) :
                 getBlogPosts(DB, query, order).value = v
            /\ \A i \in DOMAIN v.items : v.items[i].author_id = authorId
            /\ v.total <= Cardinality({p \in blog_posts : p.author_id = authorId})
            /\ IsPageOf(v, query, {p \in Matching([f \in DOMAIN input \ {"author_id"}
                                                     |-> input[f]]) :
                                     p.author_id = authorId})
               \/ \E f \in {"category_id", "tag_id"} : Has(input, f) /\ input[f] = 0

\* C16: getMyBlogPosts(authorId, query) answers as getBlogPosts does for the
\* query with author_id replaced by authorId, also when the query carries
\* another author_id: every item has author_id = authorId and total counts
\* only that author's matching posts.
C16_MyPosts == [][C16_Step]_vars

\* getMyBlogPosts answered author 2 with a post of theirs although the
\* query asked for author 1
C16_Witness ==
    /\ response.op = "getMyBlogPosts"
    /\ response.args.authorId = 2
    /\ Has(response.args.input, "author_id") /\ response.args.input.author_id = 1
    /\ response.value.total = 1
    /\ Len(response.value.items) = 1

----------------------------------------------------------------------------
(* Deleting categories and tags *)

C17_Step ==
    /\ Answers({"deleteCategory"}) =>
         LET id == response'.args.id
             gone == {c \in categories : c.id = id}
         IN  IF gone # {}
             THEN /\ response'.ok
                  /\ categories' = categories \ gone
                  /\ blog_post_categories' =
                       {r \in blog_post_categories : r.category_id # id}
                  /\ UNCHANGED <<users, tags, blog_posts, blog_post_tags, adsense_config>>
             ELSE /\ ~response'.ok /\ response'.error \in NotFound
                  /\ UNCHANGED <<tables, seq>>
    /\ Answers({"deleteTag"}) =>
         LET id == response'.args.id
             gone == {g \in tags : g.id = id}
         IN  IF gone # {}
             THEN /\ response'.ok
                  /\ tags' = tags \ gone
                  /\ blog_post_tags' = {r \in blog_post_tags : r.tag_id # id}
                  /\ UNCHANGED <<users, categories, blog_posts, blog_post_categories,
                                 adsense_config>>
             ELSE /\ ~response'.ok /\ response'.error \in NotFound
                  /\ UNCHANGED <<tables, seq>>

\* C17: deleteCategory(c) of an existing category removes the row of c and
\* the association rows with category_id = c and nothing else (posts, other
\* categories, tags and other association rows stay); deleteTag likewise;
\* with an id that does not exist each fails NotFound and the store is as
\* before.
C17_DeleteFrame == [][C17_Step]_vars

\* category 1 was deleted from under a post in categories 1 and 2: the post
\* and its row for category 2 are still there
C17_Witness ==
    /\ response.op = "deleteCategory" /\ response.ok /\ response.args.id = 1
    /\ \E p \in blog_posts :
         /\ p.slug = "first-post" /\ p.status = "draft"
         /\ {r \in blog_post_categories : r.blog_post_id = p.id}
              = {[blog_post_id |-> p.id, category_id |-> 2]}

----------------------------------------------------------------------------
(* Referential integrity *)

ReferentialIntegrity ==
    /\ \A p \in blog_posts : \E u \in users : u.id = p.author_id
    /\ \A r \in blog_post_categories :
         /\ \E p \in blog_posts : p.id = r.blog_post_id
         /\ \E c \in categories : c.id = r.category_id
    /\ \A r \in blog_post_tags :
         /\ \E p \in blog_posts : p.id = r.blog_post_id
         /\ \E g \in tags : g.id = r.tag_id

C18_Step ==
    /\ (Answers({"deleteUser"}) /\ response'.ok) =>
         LET owned == {p.id : p \in {q \in blog_posts :
                                       q.author_id = response'.args.userId}}
         IN  /\ ~ \E u \in users' : u.id = response'.args.userId
             /\ blog_posts' = {p \in blog_posts : p.id \notin owned}
             /\ ~ \E r \in blog_post_categories' \cup blog_post_tags' :
                    r.blog_post_id \in owned
    /\ (Answers({"deleteBlogPost"}) /\ response'.ok) =>
         /\ ~ \E p \in blog_posts' : p.id = response'.args.postId
         /\ ~ \E r \in blog_post_categories' \cup blog_post_tags' :
                r.blog_post_id = response'.args.postId

\* C18: in every reachable state every post's author_id is the id of a user
\* and every association row is of an existing post and an existing category
\* or tag; deleteUser(u) removes the posts of u and their association rows,
\* deleteBlogPost(p) removes the association rows of p.
C18_ReferentialIntegrity == ReferentialIntegrity /\ [][C18_Step]_vars

\* after one createBlogPost and the deleteUser of its author, the post and
\* its association rows are gone
C18_Witness ==
    /\ response.op = "deleteUser" /\ response.ok
    /\ now = 2 /\ seq.blog_posts = 2
    /\ blog_posts = {} /\ blog_post_categories = {} /\ blog_post_tags = {}

----------------------------------------------------------------------------
(* The ad configuration written by calls that do not overlap *)

\* row carries the input: publisher_id and is_enabled, and every slot field
\* with the input's value, null for a field the input omits
CarriesInput(row, input) ==
    /\ row.publisher_id = input.publisher_id
    /\ row.is_enabled = input.is_enabled
    /\ \A f \in SlotFields : row[f] = IF Has(input, f) THEN input[f] ELSE Null

C19_Step ==
    /\ Answers({"updateAdSenseConfig"}) =>
         LET input == response'.args.input
             row == response'.value
         IN  /\ response'.ok
             /\ adsense_config' = {row}
             /\ CarriesInput(row, input)
             /\ \A old \in adsense_config :
                  row.id = old.id /\ row.created_at = old.created_at
    /\ Answers({"getAdSenseConfig"}) =>
         /\ response'.ok
         /\ response'.value \subseteq adsense_config
         /\ adsense_config # {} => response'.value # Null
         /\ UNCHANGED adsense_config

\* C19: of updateAdSenseConfig calls that do not overlap the first inserts
\* a row; every later call keeps the row's id and created_at and overwrites
\* publisher_id, is_enabled and the four slot fields with the input, a slot
\* the input omits becoming null; getAdSenseConfig then returns the one row
\* of the table, the row the last call wrote.
C19_ConfigOverwrite == [][C19_Step]_vars

\* a later call that omitted the header slot answered with the row updated
\* and its header slot null
C19_Witness ==
    /\ response.op = "updateAdSenseConfig"
    /\ ~Has(response.args.input, "ad_slot_header")
    /\ response.value.ad_slot_header = Null
    /\ response.value.created_at < response.value.updated_at
    /\ adsense_config = {response.value}

----------------------------------------------------------------------------
(* Two updateBlogPost calls on one post at the same time *)

\* the call that answers completed, overlapped only updateBlogPost calls
\* that completed, at least one, and no call is in flight any more
BothCompleted ==
    /\ Answers({"updateBlogPost"}) /\ response'.ok
    /\ response'.args.call.overlapped # {}
    /\ \A w \in response'.args.call.overlapped : w.op = "updateBlogPost"
    /\ \A o \in DOMAIN postCalls : postCalls'[o] = Idle

\* the lists that the two (or more) writers supplied for field f
Written(call, f) ==
    {Range(w.input[f]) : w \in {x \in call.overlapped \cup {Overlap(call)} :
                                  Has(x.input, f)}}

C20_Step ==
    BothCompleted =>
        LET call == response'.args.call
            id == call.input.id
        IN  /\ (Has(call.input, "category_ids")
                /\ \A ids \in Written(call, "category_ids") :
                     \A k \in ids : \E c \in categories' : c.id = k) =>
                 {r.category_id : r \in {x \in blog_post_categories' :
                                           x.blog_post_id = id}}
                     \in Written(call, "category_ids")
            /\ (Has(call.input, "tag_ids")
                /\ \A ids \in Written(call, "tag_ids") :
                     \A k \in ids : \E g \in tags' : g.id = k) =>
                 {r.tag_id : r \in {x \in blog_post_tags' : x.blog_post_id = id}}
                     \in Written(call, "tag_ids")

\* C20: when updateBlogPost calls on one post that supply category_ids A and
\* B run at the same time and both complete, the post's categories are then
\* exactly A or exactly B, never the union or a mixture; likewise its tags
\* for tag_ids.
C20_LastWriterWins == [][C20_Step]_vars

----------------------------------------------------------------------------
(* The current user *)

\* record `shown` is the stored row `user` less its password_hash
IsPublicViewOf(shown, user) ==
    /\ DOMAIN shown = DOMAIN user \ {"password_hash"}
    /\ \A f \in DOMAIN shown : shown[f] = user[f]

C21_Step ==
    /\ Answers({"getCurrentUser"}) =>
         LET found == {u \in users : u.id = response'.args.userId}
         IN  /\ response'.ok
             /\ found = {} => response'.value = Null
             /\ \A u \in found :
                  \E shown \in response'.value : IsPublicViewOf(shown, u)
    /\ Answers({"verifyToken"}) =>
         \A shown \in response'.value :
           \A u \in users : u.id = shown.id => u.is_active

\* C21: getCurrentUser(id) returns the stored user without password_hash when
\* a user with that id exists, active or not, and null when none exists;
\* verifyToken returns no user who is deactivated.
C21_CurrentUser == [][C21_Step]_vars

\* getCurrentUser answered with a deactivated user
C21_Witness ==
    /\ response.op = "getCurrentUser"
    /\ \E shown \in response.value : ~shown.is_active

----------------------------------------------------------------------------
(* Partial updates *)

\* table `after` is table `before` with the row of input.id replaced by one
\* that takes the input's fields, may differ in the fields of `derived`, and
\* is the stored row in every other field
OnlyInputChanged(before, after, input, derived) ==
    \E old \in before, new \in after :
        /\ old.id = input.id /\ new.id = input.id
        /\ after = (before \ {old}) \cup {new}
        /\ DOMAIN new = DOMAIN old
        /\ \A f \in DOMAIN old :
             IF f \in DOMAIN input THEN new[f] = input[f]
             ELSE f \notin derived => new[f] = old[f]

\* the successful update of one table changed its row as OnlyInputChanged
\* says, with `derived` the fields a post may change besides
PartialUpdates(derived) ==
    /\ (Answers({"updateUser"}) /\ response'.ok) =>
         /\ OnlyInputChanged(users, users', response'.args.input, {"updated_at"})
         /\ UNCHANGED <<categories, tags, blog_posts, blog_post_categories,
                        blog_post_tags>>
    /\ (Answers({"updateCategory"}) /\ response'.ok) =>
         /\ OnlyInputChanged(categories, categories', response'.args.input,
                             {"updated_at"})
         /\ UNCHANGED <<users, tags, blog_posts, blog_post_categories, blog_post_tags>>
    /\ (Answers({"updateTag"}) /\ response'.ok) =>
         /\ OnlyInputChanged(tags, tags', response'.args.input, {"updated_at"})
         /\ UNCHANGED <<users, categories, blog_posts, blog_post_categories,
                        blog_post_tags>>
    /\ (Answers({"updateBlogPost"}) /\ response'.ok) =>
         LET input == response'.args.input
         IN  /\ OnlyInputChanged(blog_posts, blog_posts',
                                 Supplied(input, DOMAIN input \ {"category_ids", "tag_ids"}),
                                 derived)
             /\ ~Has(input, "category_ids") => UNCHANGED blog_post_categories
             /\ ~Has(input, "tag_ids") => UNCHANGED blog_post_tags
             /\ UNCHANGED <<users, categories, tags>>

\* C22 as stated: updateBlogPost, updateUser, updateCategory and updateTag
\* change only the fields present in their input plus updated_at; a field
\* absent from the input keeps its stored value, a nullable field supplied
\* as null becomes null, id, created_at and author_id never change, and
\* without category_ids (tag_ids) the post's category (tag) rows stay.
C22_OnlyInputFields == [][PartialUpdates({"updated_at"})]_vars

\* C22, amended: the same, except that updateBlogPost with status in its
\* input also writes published_at, a field no input carries.
C22_PartialUpdate ==
    [][PartialUpdates({"updated_at"})
       \/ (Answers({"updateBlogPost"}) /\ Has(response'.args.input, "status")
           /\ PartialUpdates({"updated_at", "published_at"}))]_vars

\* an update of the excerpt alone to null answered: the post has no
\* excerpt now and is still published
C22_Witness ==
    /\ response.op = "updateBlogPost" /\ response.ok
    /\ response.args.input = [id |-> 1, excerpt |-> Null]
    /\ \E p \in blog_posts :
         p.id = 1 /\ p.excerpt = Null /\ p.status = "published" /\ p.created_at < p.updated_at

----------------------------------------------------------------------------
(* Roles and the router *)

C23_Step ==
    (/\ response = None /\ response' # None
     /\ \E u \in response'.ctx.user : u.role = "author") =>
        \A v \in users, w \in users' : v.id = w.id => v.role = w.role

\* C23: no router call made with a context user of role author changes the
\* role of any user, the caller's own included.
C23_RolesBySuperAdmin == [][C23_Step]_vars

----------------------------------------------------------------------------
(* Password hashes and the public procedures *)

\* the user records in the answer of a public procedure
UsersShown(r) ==
    CASE r.op = "posts.list" -> {r.value.items[i].author : i \in DOMAIN r.value.items}
      [] r.op \in {"posts.getById", "posts.getBySlug"} -> {p.author : p \in r.value}
      [] r.op = "auth.login" -> {r.value.user}
      [] OTHER -> {}

C24_Step ==
    (Answers({"posts.list", "posts.getById", "posts.getBySlug", "auth.login"})
     /\ response'.ok) =>
        \A u \in UsersShown(response') : "password_hash" \notin DOMAIN u

\* C24: no answer of a public procedure carries a password_hash: not the
\* author of a post returned by posts.list, posts.getById or posts.getBySlug,
\* nor the user returned by login.
C24_NoPasswordHash == [][C24_Step]_vars

----------------------------------------------------------------------------
(* Credentials from createUser to login *)

C25_Step ==
    Answers({"login"}) =>
        LET input == response'.args.input
        IN  \A u \in users :
              (u.email = input.email /\ u.is_active /\ u.id \notin UserIds) =>
                 \* u was made by createUser, from one of its inputs
                 IF \E i \in WriteInputs.createUser :
                      i.email = u.email /\ i.password = input.password
                 THEN /\ response'.ok
                      /\ verifyToken(DB, response'.value.token, now).value # Null
                 ELSE ~response'.ok /\ response'.error = InvalidCredentials

\* C25: for a user created by createUser with email e and password p who
\* exists and is active, login(e, p) succeeds with a token verifyToken
\* accepts, and login(e, q) fails InvalidCredentials for every other q.
C25_CredentialsRoundTrip == [][C25_Step]_vars

----------------------------------------------------------------------------
(* Status and published_at under concurrent writes *)

\* C26: in every state reached by createBlogPost and updateBlogPost calls
\* interleaved statement by statement, a post is published if and only if
\* its published_at is not null.
C26_PublishedIffDated ==
    \A p \in blog_posts : p.status = "published" <=> p.published_at # Null

\* the post is published while an updateBlogPost that read it as a draft,
\* and sets it to draft, has yet to write
C26_Witness ==
    /\ \E p \in blog_posts : p.status = "published" /\ p.published_at # Null
    /\ \E c \in DOMAIN postCalls :
         /\ postCalls[c].pc = "write"
         /\ postCalls[c].op = "updateBlogPost"
         /\ postCalls[c].input = [id |-> 1, status |-> "draft"]
         /\ \E q \in postCalls[c].post : q.status = "draft"

----------------------------------------------------------------------------
(* Post writes that fail *)

C27_Step ==
    (Answers({"createBlogPost", "updateBlogPost"}) /\ ~response'.ok) =>
        UNCHANGED tables

\* C27: with calls that do not overlap, a createBlogPost or updateBlogPost
\* that fails (author, post, category or tag missing, permission denied,
\* slug collision, an id repeated in category_ids or tag_ids) leaves every
\* table as it was.
C27_FailedWritesLeaveNoTrace == [][C27_Step]_vars

\* updateBlogPost of an existing post was refused for an id given twice
C27_Witness ==
    /\ response.op = "updateBlogPost" /\ ~response.ok
    /\ response.args.input = [id |-> 1, category_ids |-> <<1, 1>>]
    /\ response.args.currentUserRole = "super_admin"
    /\ response.error = "One or more categories not found"
    /\ \E p \in blog_posts : p.id = 1
    /\ \E c \in categories : c.id = 1

----------------------------------------------------------------------------
(* The categories of a post *)

\* C28: in every reachable state every blog post has at least one category
\* association row, of a category that exists.
C28_EveryPostCategorised ==
    \A p \in blog_posts :
        \E r \in blog_post_categories :
            /\ r.blog_post_id = p.id
            /\ \E c \in categories : c.id = r.category_id

\* C30: a successful updateBlogPost that sets status = published on a post
\* already published keeps its published_at, one that sets status = draft on a
\* draft keeps published_at null, and applying the same status update once
\* more yields the same status and published_at.
C30_Step ==
    (Answers({"updateBlogPost"}) /\ response'.ok
        /\ Has(response'.args.input, "status")) =>
        LET a == response'.args
            input == a.input
            once == response'.value
            twice == updateBlogPost(DB', input, a.currentUserId, a.currentUserRole,
                                    now')
        IN  /\ \A old \in {q \in blog_posts : q.id = input.id} :
                 /\ (input.status = "published" /\ old.status = "published") =>
                        /\ once.status = "published"
                        /\ once.published_at = old.published_at
                 /\ (input.status = "draft" /\ old.status = "draft") =>
                        /\ once.status = "draft"
                        /\ once.published_at = Null
            /\ \A p \in Stored(once) :
                 /\ p.status = once.status
                 /\ p.published_at = once.published_at
            /\ twice.ok
            /\ twice.value.status = once.status
            /\ twice.value.published_at = once.published_at

C30_PublishIdempotent == [][C30_Step]_vars

\* a post published at an earlier instant was published again and kept its date
C30_Witness ==
    /\ response # None
    /\ response.op = "updateBlogPost"
    /\ response.ok
    /\ Has(response.args.input, "status")
    /\ response.args.input.status = "published"
    /\ response.value.published_at # Null
    /\ \A t \in response.value.published_at : t < response.value.updated_at

----------------------------------------------------------------------------
(* verifyToken and the stored record *)

\* the token createToken would make of `claims` under the header of `token`
Resigned(token, claims) ==
    <<token[1], Encode(claims), Sign(token[1], Encode(claims), JWT_SECRET)>>

\* the claims that differ from `claims` in role or email only, `claims` included
SameUserClaims(claims) ==
    {[claims EXCEPT !.role = r, !.email = e] :
        r \in Roles,
        e \in {AdminData.email, AuthorData.email, "moved@example.com"}}

C29_Step ==
    Answers({"verifyToken"}) =>
        LET token == response'.args.token
        IN  /\ \A shown \in response'.value :
                 \E u \in users :
                    /\ u.id = Decode(token[2]).userId
                    /\ IsPublicViewOf(shown, u)
                    /\ shown.role = u.role
                    /\ shown.email = u.email
            /\ (Len(token) = 3 /\ Parses(token[2])
                  /\ token[3] = Sign(token[1], token[2], JWT_SECRET)) =>
                 \A c \in SameUserClaims(Decode(token[2])) :
                    verifyToken(DB, Resigned(token, c), now).value = response'.value

\* C29: a user verifyToken returns is the row stored now for the token's
\* userId, with the stored role and email, whatever the token's own role and
\* email claims say; every correctly signed token that differs from a
\* correctly signed one in its role or email claims only gets the same answer.
C29_StoredRecord == [][C29_Step]_vars

\* a token issued before the user's role and email were changed was verified
\* and gave the new role and email
C29_Witness ==
    /\ response # None
    /\ response.op = "verifyToken"
    /\ \E shown \in response.value :
         /\ shown.role # Decode(response.args.token[2]).role
         /\ shown.email # Decode(response.args.token[2]).email

====
